---- MODULE Spec2Model ----
(***************************************************************************)
(* Speech I/O orchestration layer of ElexicoAI (src/src/hooks/useSpeech.ts) *)
(* The speech-output controller useTTS, the asynchronous voice resolver     *)
(* and the process-wide synthesis engine they share, and the speech-input   *)
(* controller useSTT with its recognition engine, as a state machine.       *)
(* A handler of the source is an operator from a program state (a record)   *)
(* to the program state after the handler and the microtasks it queued      *)
(* have run; an action commits one handler, timer or engine event.          *)
(***************************************************************************)
EXTENDS Integers, Sequences, FiniteSets, TLC

\* ---------------------------------------------------------------- bounds
MaxReq == 2           \* _speak calls (each creates at most one utterance)
MaxBoundary == 1      \* word-boundary events the engine reports per utterance
MaxWordEvents == 24   \* the same, where one controller reads out long texts
MaxResults == 2       \* entries of the result list of one recognition session
MaxDelivered == 2     \* transcripts handed to the consumer of useSTT
MaxVoices == 3        \* voices of a catalog where the voice choice is examined
MaxReadTimers == 2    \* readAloud timers of the chat panel pending at once
MaxAsk == 2           \* questions sent through the chat panel
MaxCalls == 3         \* collaborator calls of the chat panel in flight at once

\* The two useTTS instances of the app: 1 is the chat panel's
\* (AIInsightsPanel), 2 the summary player's (AISummaryPlayer).
Insts == {1, 2}

\* A text is a sequence of characters; "a" stands for a letter, " " for
\* whitespace.  <<>> is the empty string.
Texts == { <<>>, <<"a", " ", "a">> }

\* the text of n words separated by single blanks
wordsText(n) == [j \in 1..(2 * n - 1) |-> IF j % 2 = 1 THEN "a" ELSE " "]

\* Texts read out where progress is followed word by word: one to three
\* words, forty words, a leading blank, a double blank
ProgTexts ==
    { wordsText(n) : n \in {1, 2, 3, 40} }
        \cup { <<" ", "a">>, <<"a", " ", " ", "a">> }

\* ------------------------------------------------------------ voices
Null == [lang |-> "null", name |-> "null"]
VGoogleHi == [lang |-> "hi-IN", name |-> "Google hindi"]
VLekha == [lang |-> "en-IN", name |-> "Lekha"]
VGoogleUS == [lang |-> "en-US", name |-> "Google US English"]
Catalogs == { <<>>, <<VGoogleHi, VGoogleUS, VLekha>> }
VGoogleIN == [lang |-> "en-IN", name |-> "Google English India"]
VRishi == [lang |-> "en-IN", name |-> "Rishi"]
VSamantha == [lang |-> "en-US", name |-> "Samantha"]
VoiceSet == {VGoogleHi, VLekha, VGoogleUS, VGoogleIN, VRishi, VSamantha}

\* every catalog of at most MaxVoices voices, in every order
VoiceCatalogs == UNION { [1..n -> VoiceSet] : n \in 0..MaxVoices }

\* v.name.toLowerCase().includes("google")
includesGoogle(n) ==
    n \in {"Google hindi", "Google US English", "Google English India"}
\* /ravi|heera|neerja|veena|lekha/i.test(v.name)
isNamedIndian(n) == n \in {"Lekha"}
\* v.lang.startsWith("en")
startsWithEn(l) == l \in {"en-IN", "en-US"}

\* Array.prototype.find over the indices that pass the test: the first
\* voice that passes, or Null
find(voices, hits) ==
    IF hits = {} THEN Null
    ELSE voices[CHOOSE k \in hits : \A j \in hits : k <= j]

\* faulty variant: a choice without the rule for the named Indian voices
pickIndianVoice_noNamed(voices) ==
    LET all == 1..Len(voices)
        r1 == { k \in all : voices[k].lang = "en-IN"
                            /\ includesGoogle(voices[k].name) }
        r3 == { k \in all : voices[k].lang = "en-IN" }
        r4 == { k \in all : startsWithEn(voices[k].lang)
                            /\ includesGoogle(voices[k].name) }
        r5 == { k \in all : startsWithEn(voices[k].lang) }
    IN  IF r1 # {} THEN find(voices, r1)
        ELSE IF r3 # {} THEN find(voices, r3)
        ELSE IF r4 # {} THEN find(voices, r4)
        ELSE find(voices, r5)

pickIndianVoice(voices) ==
    LET all == 1..Len(voices)
        r1 == { k \in all : voices[k].lang = "en-IN"
                            /\ includesGoogle(voices[k].name) }
        r2 == { k \in all : voices[k].lang = "en-IN"
                            /\ isNamedIndian(voices[k].name) }
        r3 == { k \in all : voices[k].lang = "en-IN" }
        r4 == { k \in all : startsWithEn(voices[k].lang)
                            /\ includesGoogle(voices[k].name) }
        r5 == { k \in all : startsWithEn(voices[k].lang) }
    IN  IF r1 # {} THEN find(voices, r1)
        ELSE IF r2 # {} THEN find(voices, r2)
        ELSE IF r3 # {} THEN find(voices, r3)
        ELSE IF r4 # {} THEN find(voices, r4)
        ELSE find(voices, r5)

\* ------------------------------------------------------------- text
\* t.split(/\s+/).length: one more than the number of maximal whitespace runs
splitLength(t) ==
    1 + Cardinality({ k \in 1..Len(t) :
                        t[k] = " " /\ (k = 1 \/ t[k - 1] # " ") })

\* ---- double-precision arithmetic of the progress expression.  A double is
\* [m, e]: m its 53 significand bits, most significant first, and e the
\* exponent of the last bit, so that the value is m * 2^e.  The operands are
\* word counts and the literal 100, all below 2^10.
RECURSIVE pow2(_)
pow2(n) ==
    IF n = 0 THEN 1
    ELSE pow2(n \div 2) * pow2(n \div 2) * (IF n % 2 = 1 THEN 2 ELSE 1)

\* 2^n modulo d
RECURSIVE pow2mod(_, _)
pow2mod(n, d) ==
    IF n = 0 THEN 1 % d
    ELSE (pow2mod(n \div 2, d) * pow2mod(n \div 2, d)
          * (IF n % 2 = 1 THEN 2 ELSE 1)) % d

\* the w low bits of n, most significant first
bitsOf(n, w) == [j \in 1..w |-> (n \div pow2(w - j)) % 2]

RECURSIVE fromBits(_)
fromBits(bits) ==
    IF Len(bits) = 0 THEN 0
    ELSE IF Len(bits) = 1 THEN bits[1]
    ELSE LET h == Len(bits) \div 2
         IN  fromBits(SubSeq(bits, 1, h)) * pow2(Len(bits) - h)
             + fromBits(SubSeq(bits, h + 1, Len(bits)))

\* bits + 1 in the same width (all ones wrap to all zeros)
incr(bits) ==
    LET zeros == { j \in 1..Len(bits) : bits[j] = 0 }
        z == IF zeros = {} THEN 0
             ELSE CHOOSE j \in zeros : \A i \in zeros : i <= j
    IN  [j \in 1..Len(bits) |-> IF j < z THEN bits[j]
                                ELSE IF j = z THEN 1 ELSE 0]

\* round to nearest: the significand m is incremented when up holds
round53(m, e, up) ==
    IF ~up THEN [m |-> m, e |-> e]
    ELSE IF incr(m)[1] = 1 THEN [m |-> incr(m), e |-> e]
         ELSE [m |-> <<1>> \o SubSeq(incr(m), 2, Len(m)), e |-> e + 1]

\* the remainder of r * 2^j by d
remAt(r, d, j) == (r * pow2mod(j, d)) % d

\* the first n bits of the quotient r / d (r < d), by long division
divBits(r, d, n) ==
    [j \in 1..n |-> IF 2 * remAt(r, d, j - 1) >= d THEN 1 ELSE 0]

\* the largest a with d * 2^a <= n (for n >= d) ...
RECURSIVE shiftDown(_, _)
shiftDown(n, d) == IF 2 * d <= n THEN 1 + shiftDown(n, 2 * d) ELSE 0

\* ... and the least b with n * 2^b >= d (for n < d)
RECURSIVE shiftUp(_, _)
shiftUp(n, d) == IF n >= d THEN 0 ELSE 1 + shiftUp(2 * n, d)

\* n / d of two positive integers, rounded to the nearest double (ties to even)
fdiv(n, d) ==
    LET a == IF n >= d THEN shiftDown(n, d) ELSE 0
        b == shiftUp(n, d)
        n0 == n * pow2(b)
        d0 == d * pow2(a)
        m == <<1>> \o divBits(n0 - d0, d0, 52)
        r == remAt(n0 - d0, d0, 52)
    IN  round53(m, a - b - 52,
                2 * r > d0 \/ (2 * r = d0 /\ m[53] = 1))

\* the bits of m * c, exactly: m taken in three limbs of 17, 18 and 18 bits
mulBits(m, c) ==
    LET p3 == fromBits(SubSeq(m, 36, 53)) * c
        p2 == fromBits(SubSeq(m, 18, 35)) * c + p3 \div pow2(18)
        p1 == fromBits(SubSeq(m, 1, 17)) * c + p2 \div pow2(18)
        w1 == 1 + shiftDown(p1, 1)
    IN  bitsOf(p1, w1) \o bitsOf(p2 % pow2(18), 18) \o bitsOf(p3 % pow2(18), 18)

\* x * c for a positive integer c >= 2, rounded to the nearest double
fmul(x, c) ==
    LET p == mulBits(x.m, c)
        top == SubSeq(p, 1, 53)
        rest == SubSeq(p, 54, Len(p))
        sticky == \E j \in 2..Len(rest) : rest[j] = 1
    IN  IF rest = <<>> THEN [m |-> top, e |-> x.e]
        ELSE round53(top, x.e + Len(rest),
                     rest[1] = 1 /\ (sticky \/ top[53] = 1))

\* Math.round of a positive double below 2^52: the integer part, plus one
\* when the fraction is a half or more
mathRound(x) ==
    LET ib == 53 + x.e      \* number of bits before the binary point
    IN  (IF ib >= 1 THEN fromBits(SubSeq(x.m, 1, ib)) ELSE 0)
        + (IF ib >= 0 /\ ib < 53 THEN x.m[ib + 1] ELSE 0)

\* Math.min(99, Math.round((wordIdx / words) * 100))
progressExpr(wordIdx, words) ==
    LET rounded == mathRound(fmul(fdiv(wordIdx, words), 100))
    IN  IF rounded < 99 THEN rounded ELSE 99

\* the values of the expression for the word counts and word indexes that
\* occur, computed once
WordCounts == { splitLength(t) : t \in Texts \cup ProgTexts }
WordIdxs == 1..(IF MaxBoundary > MaxWordEvents THEN MaxBoundary
                ELSE MaxWordEvents)
progressTable ==
    [wordIdx \in WordIdxs, words \in WordCounts |-> progressExpr(wordIdx, words)]

progressOf(wordIdx, words) == progressTable[wordIdx, words]

\* --------------------------------------------------------- state
VARIABLES
    life,       \* life[i]: "new" (not mounted yet), "mounted", "gone"
    text,       \* textRef.current of instance i
    state,      \* React state `state` of instance i, every queued update applied
    progress,   \* React state `progress` of instance i, likewise
    uttRef,     \* uttRef.current of instance i: a request id, 0 for null
    reqs,       \* the _speak calls so far; reqs[r] is also utterance r
    listeners,  \* "voiceschanged" handlers registered, in order
    timers,     \* pending setTimeout callbacks, in creation order
    queue,      \* utterances the engine holds (head is being spoken)
    paused,     \* the engine's paused flag
    late,       \* cancelled utterances whose last event is still in flight
    voices,     \* speechSynthesis.getVoices()
    effectDue,  \* instances whose passive effect is yet to run: the effect of
                \* [text] of a mounted instance, the cleanup of one that is gone
    renderedPaused, \* renderedPaused[i]: `state === "paused"` as instance i's
                \* last render saw it, the value its play callback closes over
    fx,         \* effects of the last handler, in program order
    lastOp,     \* the last handler that ran
    rep,        \* the last replay() call, while no other call has followed it
    hasSR,          \* window.SpeechRecognition ?? webkitSpeechRecognition exists
    sttLife,        \* the surface owning useSTT: "mounted" or "gone"
    listening,      \* React state `listening` of useSTT, every queued update applied
    renderedListening, \* `listening` as the last render saw it, the value the
                    \* start callback closes over
    abortDue,       \* the cleanup of the setup effect is yet to run
    supported,      \* React state `supported`
    interim,        \* React state `interim`
    error,          \* React state `error`: a kind, or "null"
    recognitionRef, \* recognitionRef.current is set
    session,        \* the engine's session: "idle", "active", "stopping", "ending"
    results,        \* the result list of the engine's session
    delivered       \* the transcripts passed to onResultRef.current, in order

\* the state of useSTT and of the recognition engine
\* The chat panel (AIInsightsPanel) around its controllers
VARIABLES
    slide,      \* slide.id of the slide the panel shows
    pending,    \* the collaborator calls in flight: how many of each [fn, slide]
    readTimers, \* pending 60 ms timers of readAloud, in creation order
    ai,         \* the last collaborator call that settled
    ttsText,    \* React state `ttsText`, the text useTTS is rendered with next
    aiSummary,  \* React state `aiSummary`: <<>> for null, or <<summary>>
    summaryLoading, \* React state `summaryLoading`
    allMessages, \* React state `allMessages`: the messages of each slide
    shown,      \* aiSummary, summaryLoading and allMessages as the panel's last
                \* render saw them, the values its buttons and handlers carry
    uids        \* the number of message ids uid() has made

panelVars == <<slide, pending, readTimers, ai, ttsText, aiSummary,
               summaryLoading, allMessages, shown, uids>>

\* The synchronous-voice variant of useTTS
VARIABLES
    onvoiceschanged  \* speechSynthesis.onvoiceschanged: [inst, req] of the
                     \* _speak call that set it, inst 0 while it is unset

syncVars == <<onvoiceschanged>>

sttVars == <<hasSR, sttLife, listening, renderedListening, abortDue,
             supported, interim, error, recognitionRef, session, results,
             delivered>>

vars == <<life, text, state, progress, uttRef, reqs, listeners, timers,
          queue, paused, late, voices, effectDue, renderedPaused, fx, lastOp,
          rep, sttVars, panelVars, syncVars>>

\* the program's own state, without the bookkeeping of fx, lastOp and rep
prog == <<life, text, state, progress, uttRef, reqs, listeners, timers,
          queue, paused, late, voices, effectDue, renderedPaused>>

\* The program state as one value, and its commit to the variables
Cur == [life |-> life, text |-> text, state |-> state, progress |-> progress,
        uttRef |-> uttRef, reqs |-> reqs, listeners |-> listeners,
        timers |-> timers, queue |-> queue, paused |-> paused, late |-> late,
        voices |-> voices, effectDue |-> effectDue,
        renderedPaused |-> renderedPaused, fx |-> <<>>]

Commit(s) ==
    /\ life' = s.life
    /\ text' = s.text
    /\ state' = s.state
    /\ progress' = s.progress
    /\ uttRef' = s.uttRef
    /\ reqs' = s.reqs
    /\ listeners' = s.listeners
    /\ timers' = s.timers
    /\ queue' = s.queue
    /\ paused' = s.paused
    /\ late' = s.late
    /\ voices' = s.voices
    /\ effectDue' = s.effectDue
    /\ renderedPaused' = s.renderedPaused
    /\ fx' = s.fx

Range(q) == { q[k] : k \in 1..Len(q) }
Without(q, x) == SelectSeq(q, LAMBDA y : y # x)
Effect(s, e) == [s EXCEPT !.fx = Append(@, e)]

\* ------------------------------------------------- React state setters
\* A state update of an instance that is not mounted is dropped by React.
setState(s, i, v) ==
    Effect(IF s.life[i] = "mounted" THEN [s EXCEPT !.state[i] = v] ELSE s,
           "setState")

setProgress(s, i, p) ==
    Effect(IF s.life[i] = "mounted" THEN [s EXCEPT !.progress[i] = p] ELSE s,
           "setProgress")

setUttRef(s, i, u) == Effect([s EXCEPT !.uttRef[i] = u], "uttRef")

\* ------------------------------------------------------ the engine
\* speechSynthesis.cancel(): the queue is emptied and a pause of the engine
\* ends; the engine still owes the removed utterances their last event.
\* faulty variant: a cancel that removes only the utterance being spoken
cancel_headOnly(s) ==
    Effect([s EXCEPT !.queue = IF @ = <<>> THEN <<>> ELSE Tail(@),
                     !.paused = FALSE,
                     !.late = IF s.queue = <<>> THEN @
                              ELSE @ \cup {Head(s.queue)}], "cancel")

cancel(s) ==
    Effect([s EXCEPT !.queue = <<>>, !.paused = FALSE,
                     !.late = @ \cup Range(s.queue)], "cancel")

globalStop(s) == cancel(s)

engineSpeak(s, u) == Effect([s EXCEPT !.queue = Append(@, u)], "speak")

\* speechSynthesis.pause(): the engine is paused, with or without an utterance
enginePause(s) == Effect([s EXCEPT !.paused = TRUE], "pause")

\* speechSynthesis.resume(): the pause ends when the engine holds an
\* utterance; on an engine that holds none the call changes nothing
engineResume(s) ==
    Effect([s EXCEPT !.paused = IF s.queue = <<>> THEN @ ELSE FALSE], "resume")


\* ------------------------------------------------ useTTS: starting speech
\* new SpeechSynthesisUtterance(t) with its callbacks, handed to the engine
doSpeak(s, r, voice) ==
    LET i == s.reqs[r].inst
        s1 == Effect([s EXCEPT !.reqs[r].voice = voice,
                               !.reqs[r].spoken = @ + 1], "utterance")
        s2 == setUttRef(s1, i, r)
        s3 == engineSpeak(s2, r)
    IN  setState(s3, i, "playing")

\* resolve(v) of the promise of request r followed by its .then(doSpeak)
\* microtask; a promise settles once, later resolve calls do nothing.
\* faulty variant: a promise whose every resolve call runs the continuation
resolve_notOnce(s, r, voice) ==
    doSpeak([s EXCEPT !.reqs[r].settled = TRUE], r, voice)

resolve(s, r, voice) ==
    IF s.reqs[r].settled THEN s
    ELSE doSpeak([s EXCEPT !.reqs[r].settled = TRUE], r, voice)

removeEventListener(s, r) == [s EXCEPT !.listeners = Without(@, r)]

setTimeout(s, kind, arg, delay) ==
    Effect([s EXCEPT !.timers =
                Append(@, [kind |-> kind, arg |-> arg, delay |-> delay])],
           "setTimeout")

VoiceTimeoutMs == 2000
ReplayDelayMs == 80

getIndianVoiceAsync(s, r) ==
    IF Len(s.voices) > 0
    THEN resolve(s, r, pickIndianVoice(s.voices))
    ELSE setTimeout(Effect([s EXCEPT !.listeners = Append(@, r)],
                           "addEventListener"),
                    "voiceTimeout", r, VoiceTimeoutMs)

\* faulty variant: _speak without the process-wide stop
_speak_noStop(s, i, t) ==
    getIndianVoiceAsync(
        [s EXCEPT !.reqs = Append(@,
            [inst |-> i, text |-> t, settled |-> FALSE, voice |-> Null,
             spoken |-> 0, wordIdx |-> 0])],
        Len(s.reqs) + 1)

_speak(s, i, t) ==
    LET s1 == globalStop(s)
        r == Len(s.reqs) + 1
        s2 == [s1 EXCEPT !.reqs = Append(@,
                  [inst |-> i, text |-> t, settled |-> FALSE, voice |-> Null,
                   spoken |-> 0, wordIdx |-> 0])]
    IN  getIndianVoiceAsync(s2, r)

\* ------------------------------------------------ useTTS: the public API
\* play is made anew by every render whose `state` changed (its dependency
\* list is [state, _speak]): the `state === "paused"` it evaluates is that of
\* the last render, not of an update React has yet to render.
play(s, i) ==
    IF Len(s.text[i]) = 0 THEN s
    ELSE IF s.renderedPaused[i]
         THEN setState(engineResume(s), i, "playing")
         ELSE _speak(s, i, s.text[i])

pause(s, i) == setState(enginePause(s), i, "paused")

resetSession(s, i) ==
    setUttRef(setProgress(setState(s, i, "idle"), i, 0), i, 0)

replay(s, i) ==
    setTimeout(resetSession(globalStop(s), i), "replayTimeout", i, ReplayDelayMs)

\* faulty variant: stop that leaves the progress where it was
stop_keepsProgress(s, i) == setUttRef(setState(globalStop(s), i, "idle"), i, 0)

stop(s, i) == resetSession(globalStop(s), i)

\* faulty variant: speak without the empty-text return
speak_noGuard(s, i, t) == _speak(s, i, t)

speak(s, i, t) == IF Len(t) = 0 THEN s ELSE _speak(s, i, t)

\* ------------------------------------------------ useTTS: effects
\* Reset when text changes (also runs on mount)
textEffect(s, i) == resetSession(cancel(s), i)

\* Cancel when unmounted: the cleanup of the mount effect
unmountEffect(s, i) == cancel(s)

\* the passive effect of an instance that is due runs: React runs the
\* passive effects of a render in a later task, and before it renders again
flushEffect(s, i) ==
    IF i \notin s.effectDue THEN s
    ELSE IF s.life[i] = "gone"
         THEN unmountEffect([s EXCEPT !.effectDue = @ \ {i}], i)
         ELSE textEffect([s EXCEPT !.effectDue = @ \ {i}], i)

\* React runs every passive effect that is due, of whatever instance, before
\* it renders, mounts or unmounts anything
flushEffects(s) == flushEffect(flushEffect(s, 1), 2)

\* React renders: the effects still due run, then every instance is rendered
\* with the state updates queued so far
render(s) ==
    LET s1 == flushEffects(s)
    IN  [s1 EXCEPT !.renderedPaused = [i \in Insts |-> s1.state[i] = "paused"]]

\* the first render of instance i; its effect of [text] is due
mount(s, i) ==
    [render(s) EXCEPT !.life[i] = "mounted", !.text[i] = <<>>,
                      !.state[i] = "idle", !.progress[i] = 0,
                      !.uttRef[i] = 0, !.renderedPaused[i] = FALSE,
                      !.effectDue = @ \cup {i}]

\* the commit that removes instance i; the cleanup of its mount effect is due
unmount(s, i) ==
    [render(s) EXCEPT !.life[i] = "gone", !.effectDue = @ \cup {i}]

\* instance i is rendered with the text t: textRef.current = text; the
\* effect of [text] is due when the text differs from the last render's
bind(s, i, t) ==
    IF t = s.text[i] THEN s
    ELSE [s EXCEPT !.text[i] = t, !.effectDue = @ \cup {i}]

\* a render of every instance, instance i with the text t
setText(s, i, t) == bind(render(s), i, t)

\* The render React makes before a click is over, for the state updates of
\* the click: the passive effects still due run first, the chat panel's
\* controller is rendered with the text t, and the passive effects of this
\* render run before the event ends.  React versions differ in whether the
\* render also takes the updates that timers, promises and engine events
\* queued before the click (all).
clickRender(s, t, all) ==
    LET s1 == flushEffects(s)
    IN  flushEffects(bind(IF all THEN render(s1) ELSE s1, 1, t))

\* ------------------------------------------------ timers and events
\* A timer fires before every timer created later with the same or a longer
\* delay.
canFire(s, k) == \A j \in 1..(k - 1) : s.timers[j].delay > s.timers[k].delay

dropTimer(s, k) ==
    [s EXCEPT !.timers = [j \in 1..(Len(@) - 1) |->
                              IF j < k THEN @[j] ELSE @[j + 1]]]

\* faulty variant: a safety timeout that only removes the listener
voiceTimeout_noResolve(s, r) == removeEventListener(s, r)

\* the safety timeout of getIndianVoiceAsync
voiceTimeout(s, r) == resolve(removeEventListener(s, r), r, Null)

\* the settle timer of replay
replayTimeout(s, i) == _speak(s, i, s.text[i])

fireTimer(s, k) ==
    LET tm == s.timers[k]
        s1 == dropTimer(s, k)
    IN  IF tm.kind = "voiceTimeout" THEN voiceTimeout(s1, tm.arg)
        ELSE replayTimeout(s1, tm.arg)

\* the "voiceschanged" handler of request r
voicesHandler(s, r) ==
    resolve(removeEventListener(s, r), r, pickIndianVoice(s.voices))

RECURSIVE dispatch(_, _)
dispatch(s, hs) ==
    IF hs = <<>> THEN s
    ELSE dispatch(IF Head(hs) \in Range(s.listeners)
                  THEN voicesHandler(s, Head(hs)) ELSE s, Tail(hs))

\* the catalog loads and the engine notifies every registered handler
voicesChanged(s, c) == dispatch([s EXCEPT !.voices = c], s.listeners)

\* utt.onboundary
onboundary(s, u, name) ==
    IF name = "word"
    THEN LET s1 == [s EXCEPT !.reqs[u].wordIdx = @ + 1]
         IN  setProgress(s1, s.reqs[u].inst,
                 progressOf(s1.reqs[u].wordIdx, splitLength(s.reqs[u].text)))
    ELSE s

\* utt.onend
onend(s, u) == setProgress(setState(s, s.reqs[u].inst, "done"),
                           s.reqs[u].inst, 100)

\* faulty variant: an error callback that does not report the failure
onerror_silent(s, u) == s

\* utt.onerror
onerror(s, u) == setState(s, s.reqs[u].inst, "error")


\* ------------------------------------------------ useSTT
\* The state of useSTT and its engine as one value, and its commit
SttCur == [life |-> sttLife, hasSR |-> hasSR, listening |-> listening,
           renderedListening |-> renderedListening, abortDue |-> abortDue,
           supported |-> supported, interim |-> interim, error |-> error,
           recognitionRef |-> recognitionRef, session |-> session,
           results |-> results, delivered |-> delivered, fx |-> <<>>]

SttCommit(s) ==
    /\ sttLife' = s.life
    /\ hasSR' = s.hasSR
    /\ listening' = s.listening
    /\ renderedListening' = s.renderedListening
    /\ abortDue' = s.abortDue
    /\ supported' = s.supported
    /\ interim' = s.interim
    /\ error' = s.error
    /\ recognitionRef' = s.recognitionRef
    /\ session' = s.session
    /\ results' = s.results
    /\ delivered' = s.delivered
    /\ fx' = s.fx

\* useState initial values and useRef(null), before any effect has run
sttNew(sr) ==
    [life |-> "mounted", hasSR |-> sr, listening |-> FALSE,
     renderedListening |-> FALSE, abortDue |-> FALSE,
     supported |-> FALSE, interim |-> <<>>, error |-> "null",
     recognitionRef |-> FALSE, session |-> "idle", results |-> <<>>,
     delivered |-> <<>>, fx |-> <<>>]

setListening(s, v) ==
    Effect(IF s.life = "mounted" THEN [s EXCEPT !.listening = v] ELSE s,
           "setListening")

setSupported(s, v) ==
    Effect(IF s.life = "mounted" THEN [s EXCEPT !.supported = v] ELSE s,
           "setSupported")

setInterim(s, v) ==
    Effect(IF s.life = "mounted" THEN [s EXCEPT !.interim = v] ELSE s,
           "setInterim")

setError(s, v) ==
    Effect(IF s.life = "mounted" THEN [s EXCEPT !.error = v] ELSE s,
           "setError")

\* the setup effect: the engine is looked up once and configured
sttSetup(s) ==
    IF ~s.hasSR THEN setSupported(s, FALSE)
    ELSE [setSupported(s, TRUE) EXCEPT !.recognitionRef = TRUE]

\* useSTT is rendered with the state updates queued so far: start is made
\* anew with the `listening` of this render (its dependency list)
sttRender(s) == [s EXCEPT !.renderedListening = s.listening]

\* the commit that removes the surface owning useSTT; the cleanup of the
\* setup effect is due
sttUnmount(s) == [s EXCEPT !.life = "gone", !.abortDue = TRUE]

\* the cleanup of the setup effect: recognitionRef.current?.abort()
sttCleanup(s) ==
    LET s1 == [s EXCEPT !.abortDue = FALSE]
    IN  IF s.recognitionRef
        THEN Effect([s1 EXCEPT !.session =
                        IF @ = "idle" THEN "idle" ELSE "ending"], "abort")
        ELSE s1

\* String.prototype.trim
trim(t) ==
    LET solid == { k \in 1..Len(t) : t[k] # " " }
    IN  IF solid = {} THEN <<>>
        ELSE SubSeq(t, CHOOSE k \in solid : \A j \in solid : k <= j,
                       CHOOSE k \in solid : \A j \in solid : j <= k)

\* the forEach of rec.onresult: finalText and interimText over the list
RECURSIVE finalTextOf(_)
finalTextOf(rs) ==
    IF rs = <<>> THEN <<>>
    ELSE (IF Head(rs).isFinal THEN Head(rs).transcript \o <<" ">> ELSE <<>>)
         \o finalTextOf(Tail(rs))

RECURSIVE interimTextOf(_)
interimTextOf(rs) ==
    IF rs = <<>> THEN <<>>
    ELSE (IF Head(rs).isFinal THEN <<>> ELSE Head(rs).transcript)
         \o interimTextOf(Tail(rs))

\* rec.onresult with e.results = rs
rec_onresult(s, rs) ==
    LET s1 == IF interimTextOf(rs) # <<>>
              THEN setInterim(s, interimTextOf(rs)) ELSE s
    IN  IF trim(finalTextOf(rs)) # <<>>
        THEN Effect([setInterim(s1, <<>>) EXCEPT
                        !.delivered = Append(@, trim(finalTextOf(rs)))],
                    "onResult")
        ELSE s1

\* faulty variant: an end handler that only clears the interim text
rec_onend_keepsListening(s) == setInterim(s, <<>>)

\* rec.onend
rec_onend(s) == setInterim(setListening(s, FALSE), <<>>)

\* rec.onerror with e.error = raw
rec_onerror(s, raw) ==
    setError(setInterim(setListening(s, FALSE), <<>>),
             IF raw \in {"not-allowed", "permission-denied"} THEN "not-allowed"
             ELSE IF raw = "no-speech" THEN "no-speech"
             ELSE IF raw = "network" THEN "network"
             ELSE "null")

\* faulty variant: start without the try and catch around the engine's
\* start: its exception reaches the caller
start_noCatch(s) ==
    IF ~s.recognitionRef \/ s.renderedListening THEN s
    ELSE LET s1 == setInterim(setError(s, "null"), <<>>)
         IN  IF s1.session # "idle"
             THEN Effect(Effect(s1, "startThrew"), "uncaught")
             ELSE setListening(
                      Effect([s1 EXCEPT !.session = "active",
                                        !.results = <<>>], "start"),
                      TRUE)

\* start(); the engine's start() throws while it still has a session.
\* start is made anew by every render whose `listening` changed (its
\* dependency list is [listening]): the `listening` it tests is that of
\* the last render, not of an update React has yet to render.
start(s) ==
    IF ~s.recognitionRef \/ s.renderedListening THEN s
    ELSE LET s1 == setInterim(setError(s, "null"), <<>>)
         IN  IF s1.session # "idle" THEN Effect(s1, "startThrew")
             ELSE setListening(
                      Effect([s1 EXCEPT !.session = "active",
                                        !.results = <<>>], "start"),
                      TRUE)

\* faulty variant: a stop that leaves the flags to the engine's end event
stopSTT_waitsForEnd(s) ==
    IF ~s.recognitionRef THEN s
    ELSE Effect([s EXCEPT !.session =
                    IF @ = "active" THEN "stopping" ELSE @], "stop")

\* faulty variant: a stop that also forgets the last error
stopSTT_clearsError(s) ==
    IF ~s.recognitionRef THEN setInterim(setListening(s, FALSE), <<>>)
    ELSE LET s1 == Effect([s EXCEPT !.session =
                              IF @ = "active" THEN "stopping" ELSE @], "stop")
         IN  setError(setInterim(setListening(s1, FALSE), <<>>), "null")

\* stop() of useSTT
stopSTT(s) ==
    LET s1 == IF ~s.recognitionRef THEN s
              ELSE Effect([s EXCEPT !.session =
                              IF @ = "active" THEN "stopping" ELSE @], "stop")
    IN  setInterim(setListening(s1, FALSE), <<>>)


\* ------------------------------------------------ the state machine
Op(name, i, t) == [op |-> name, i |-> i, t |-> t]

NoRep == [i |-> 0, from |-> "none", req |-> 0]

\* Every _speak call, made or still owed by a replay timer, is within MaxReq
Fits(s) ==
    Len(s.reqs) + Cardinality({ k \in 1..Len(s.timers) :
                                   s.timers[k].kind = "replayTimeout" }) <= MaxReq

Do(s, op) ==
    /\ Fits(s) /\ Commit(s) /\ lastOp' = op
    /\ UNCHANGED <<sttVars, panelVars, syncVars>>

\* The controllers before any call: the mount effect of every mounted
\* instance has run, nothing is bound or requested yet
TtsFresh(l) ==
    /\ life = l
    /\ state = [i \in Insts |-> "idle"]
    /\ progress = [i \in Insts |-> 0]
    /\ uttRef = [i \in Insts |-> 0]
    /\ reqs = <<>>
    /\ listeners = <<>>
    /\ timers = <<>>
    /\ queue = <<>>
    /\ paused = FALSE
    /\ late = {}
    /\ effectDue = {}
    /\ renderedPaused = [i \in Insts |-> FALSE]
    /\ fx = <<"cancel", "setState", "setProgress", "uttRef">>
    /\ lastOp = Op("mount", 2, <<>>)
    /\ rep = NoRep

\* ------------------------------------------------ the AI collaborator
\* The slides of the deck by their id, with the static data the fallbacks
\* use; "." and "!" end a sentence.
Slides == {1, 2}

aiInsight(k) ==
    IF k = 1 THEN <<"a", ".", " ", "a", ".">>
    ELSE <<"a", " ", "a", "!", " ", "a", ".">>

keyPoints(k) ==
    IF k = 1 THEN << wordsText(2) >> ELSE << wordsText(8), wordsText(1) >>

\* A field of a JSON object: missing, or a string
Missing == [has |-> FALSE, val |-> <<>>]
Str(t) == [has |-> TRUE, val |-> t]
BackendText == <<"b", " ", "b">>
BackendKeyPoints == << <<"b">> >>
Fields == { Missing, Str(<<>>), Str(BackendText) }

\* The body of a response: not JSON, the JSON null, or an object
NoBody == [json |-> "unparsable", reply |-> Missing, description |-> Missing,
           keyPoints |-> "missing"]
NullBody == [NoBody EXCEPT !.json = "null"]
ChatBodies ==
    { NoBody, NullBody }
        \cup { [json |-> "object", reply |-> f, description |-> Missing,
                keyPoints |-> "missing"] : f \in Fields }
SummaryBodies ==
    { NoBody, NullBody }
        \cup { [json |-> "object", reply |-> Missing, description |-> f,
                keyPoints |-> kp] :
                  f \in Fields, kp \in {"missing", "string", "array"} }

\* The outcomes of fetch: a network error, a response with a non-OK status,
\* an OK response with any body
outcomesOf(bodies) ==
    { [net |-> "error", ok |-> FALSE, body |-> NoBody] }
        \cup { [net |-> "ok", ok |-> ok, body |-> b] :
                  ok \in BOOLEAN, b \in bodies }
ChatOutcomes == outcomesOf(ChatBodies)
SummaryOutcomes == outcomesOf(SummaryBodies)

\* how a block of statements ends: with a return, by throwing, or by
\* running to its end
NoValue == [text |-> <<>>, keyPoints |-> <<>>]
Return(v) == [tag |-> "return", v |-> v]
Throw == [tag |-> "throw", v |-> NoValue]
Fall == [tag |-> "fall", v |-> NoValue]

\* how an async function settles
Resolved(v) == [tag |-> "resolved", value |-> v]
Rejected == [tag |-> "rejected", value |-> NoValue]

\* a value of a field in a condition
truthy(f) == f.has /\ f.val # <<>>

\* t.split(/[.!?]/)[0]
firstPiece(t) ==
    LET ends == { k \in 1..Len(t) : t[k] \in {".", "!", "?"} }
    IN  IF ends = {} THEN t
        ELSE SubSeq(t, 1, (CHOOSE k \in ends : \A j \in ends : k <= j) - 1)

\* t.split(" ").slice(0, n).join(" ")
firstWords(t, n) ==
    LET blanks == { k \in 1..Len(t) : t[k] = " " }
    IN  IF Cardinality(blanks) < n THEN t
        ELSE SubSeq(t, 1, (CHOOSE k \in blanks :
                             Cardinality({ j \in blanks : j <= k }) = n) - 1)

\* the fallback of getAISummaryData
summaryFallback(k) ==
    [text |-> trim(firstPiece(aiInsight(k))) \o <<".">>,
     keyPoints |-> [j \in 1..Len(keyPoints(k)) |->
                       firstWords(keyPoints(k)[j], 7)]]

\* the fallback of getAIResponse; the literal prefix is <<"a", ".", " ">>
chatFallback(k) ==
    [text |-> <<"a", ".", " ">> \o aiInsight(k), keyPoints |-> <<>>]

\* the try block of getAISummaryData
summaryTry(o) ==
    IF o.net = "error" THEN Throw
    ELSE IF ~o.ok THEN Fall
    ELSE IF o.body.json = "unparsable" THEN Throw
    ELSE IF o.body.json = "null" THEN Throw
    ELSE IF truthy(o.body.description) /\ o.body.keyPoints = "array"
         THEN Return([text |-> o.body.description.val,
                      keyPoints |-> BackendKeyPoints])
         ELSE Fall

getAISummaryData(o, k) ==
    IF summaryTry(o).tag = "return" THEN Resolved(summaryTry(o).v)
    ELSE Resolved(summaryFallback(k))

\* the try block of getAIResponse
chatTry(o) ==
    IF o.net = "error" THEN Throw
    ELSE IF ~o.ok THEN Fall
    ELSE IF o.body.json = "unparsable" THEN Throw
    ELSE IF o.body.json = "null" THEN Throw
    ELSE IF truthy(o.body.reply)
         THEN Return([text |-> o.body.reply.val, keyPoints |-> <<>>])
         ELSE Fall

\* faulty variant: a call whose exceptions are not caught
getAIResponse_noCatch(o, k) ==
    IF chatTry(o).tag = "return" THEN Resolved(chatTry(o).v)
    ELSE IF chatTry(o).tag = "throw" THEN Rejected
    ELSE Resolved(chatFallback(k))

getAIResponse(o, k) ==
    IF chatTry(o).tag = "return" THEN Resolved(chatTry(o).v)
    ELSE Resolved(chatFallback(k))

\* The panel after its first render on the first slide: the summary of the
\* slide is being fetched, nothing was asked or read out yet
NoCall == [fn |-> "none", slide |-> 0,
           http |-> [net |-> "none", ok |-> FALSE, body |-> NoBody],
           tag |-> "none", value |-> NoValue]

NoHandler == [inst |-> 0, req |-> 0]

\* the calls the panel makes, and one more of a kind in flight
Calls == [fn : {"summary", "chat"}, slide : Slides]
Call(fn, k) == [fn |-> fn, slide |-> k]
inFlight(p) == p[Call("summary", 1)] + p[Call("summary", 2)]
                   + p[Call("chat", 1)] + p[Call("chat", 2)]

\* what a render of the panel sees of its state
Shown(sum, loading, msgs) ==
    [aiSummary |-> sum, summaryLoading |-> loading, allMessages |-> msgs]

\* the panel after its first render and the effects of that render: the
\* summary effect has queued setAiSummary(null) and setSummaryLoading(true)
\* and called getAISummaryData; the render itself saw the initial values of
\* useState (summaryLoading false), and the render of the queued updates is
\* a later task
PanelFresh ==
    /\ onvoiceschanged = NoHandler
    /\ slide = 1
    /\ pending = [c \in Calls |-> IF c = Call("summary", 1) THEN 1 ELSE 0]
    /\ readTimers = <<>>
    /\ ai = NoCall
    /\ ttsText = <<>>
    /\ aiSummary = <<>>
    /\ summaryLoading = TRUE
    /\ allMessages = [k \in Slides |-> <<>>]
    /\ shown = Shown(<<>>, FALSE, [k \in Slides |-> <<>>])
    /\ uids = 0

\* useSTT after its first render and its setup effect
SttMounted(sr) ==
    /\ sttLife = "mounted"
    /\ hasSR = sr
    /\ listening = sttSetup(sttNew(sr)).listening
    /\ renderedListening = sttSetup(sttNew(sr)).renderedListening
    /\ abortDue = sttSetup(sttNew(sr)).abortDue
    /\ supported = sttSetup(sttNew(sr)).supported
    /\ interim = sttSetup(sttNew(sr)).interim
    /\ error = sttSetup(sttNew(sr)).error
    /\ recognitionRef = sttSetup(sttNew(sr)).recognitionRef
    /\ session = sttSetup(sttNew(sr)).session
    /\ results = sttSetup(sttNew(sr)).results
    /\ delivered = sttSetup(sttNew(sr)).delivered

\* Both surfaces are mounted (their mount effects have run), the summary
\* player has a summary bound, the chat panel may have nothing bound yet.
Init ==
    /\ TtsFresh([i \in Insts |-> "mounted"])
    /\ PanelFresh
    /\ text \in { f \in [Insts -> Texts] : f[2] # <<>> }
    /\ voices \in Catalogs
    /\ SttMounted(TRUE)

Mounted(i) == life[i] = "mounted"

Mount(i) ==
    /\ life[i] = "new"
    /\ Do(mount(Cur, i), Op("mount", i, <<>>))
    /\ rep' = NoRep

Unmount(i) ==
    /\ Mounted(i)
    /\ Do(unmount(Cur, i), Op("unmount", i, <<>>))
    /\ rep' = NoRep

SetText(i, t) ==
    /\ Mounted(i)
    /\ t # text[i]
    /\ Do(setText(Cur, i, t), Op("setText", i, t))
    /\ rep' = NoRep

\* the effect of [text] of a render runs, in a task after the render
TextEffect(i) ==
    /\ Mounted(i)
    /\ i \in effectDue
    /\ Do(flushEffect(Cur, i), Op("textEffect", i, <<>>))
    /\ rep' = NoRep

\* the cleanup of the mount effect runs, in a task after the unmount
Cleanup(i) ==
    /\ life[i] = "gone"
    /\ i \in effectDue
    /\ Do(flushEffect(Cur, i), Op("cleanup", i, <<>>))
    /\ rep' = NoRep

\* React renders the state updates queued by the calls, timers, engine
\* events and effects, in a task of its own. A render is due when it changes
\* what a callback sees.
RenderDue == renderedPaused # [i \in Insts |-> state[i] = "paused"]

Render ==
    /\ RenderDue
    /\ Do(render(Cur), Op("render", 0, <<>>))
    /\ rep' = rep

Speak(i, t) ==
    /\ Mounted(i)
    /\ Do(speak(Cur, i, t), Op("speak", i, t))
    /\ rep' = NoRep

Play(i) ==
    /\ Mounted(i)
    /\ Do(play(Cur, i), Op("play", i, text[i]))
    /\ rep' = NoRep

Pause(i) ==
    /\ Mounted(i)
    /\ Do(pause(Cur, i), Op("pause", i, <<>>))
    /\ rep' = NoRep

Replay(i) ==
    /\ Mounted(i)
    /\ Do(replay(Cur, i), Op("replay", i, <<>>))
    /\ rep' = [i |-> i, from |-> state[i], req |-> 0]

Stop(i) ==
    /\ Mounted(i)
    /\ Do(stop(Cur, i), Op("stop", i, <<>>))
    /\ rep' = NoRep

\* The timer of the replay() that rep records is the youngest replay timer;
\* when it fires, rep learns the request its _speak call makes.
FireTimer(k) ==
    /\ k \in 1..Len(timers)
    /\ canFire(Cur, k)
    /\ Do(fireTimer(Cur, k), Op(timers[k].kind, timers[k].arg, <<>>))
    /\ rep' = IF /\ timers[k].kind = "replayTimeout"
                 /\ rep.i # 0
                 /\ rep.req = 0
                 /\ \A j \in (k + 1)..Len(timers) : timers[j].kind # "replayTimeout"
              THEN [rep EXCEPT !.req = Len(reqs) + 1]
              ELSE rep

VoicesChanged(c) ==
    /\ c # <<>>
    /\ c # voices
    /\ Do(voicesChanged(Cur, c), Op("voiceschanged", 0, <<>>))
    /\ rep' = rep

\* The engine reports on the utterance it is speaking: the head of its queue
Speaking == queue # <<>> /\ ~paused

BoundaryWithin(name, max) ==
    /\ Speaking
    /\ reqs[Head(queue)].wordIdx < max
    /\ Do(onboundary(Cur, Head(queue), name),
          Op("boundary", reqs[Head(queue)].inst, <<name>>))
    /\ rep' = rep

Boundary(name) == BoundaryWithin(name, MaxBoundary)

End ==
    /\ Speaking
    /\ Do(onend([Cur EXCEPT !.queue = Tail(@)], Head(queue)),
          Op("end", reqs[Head(queue)].inst, <<>>))
    /\ rep' = rep

Error ==
    /\ queue # <<>>
    /\ Do(onerror([Cur EXCEPT !.queue = Tail(@)], Head(queue)),
          Op("error", reqs[Head(queue)].inst, <<>>))
    /\ rep' = rep

\* The last event of an utterance that cancel() removed: "error" where the
\* engine reports the interruption, "end" where it reports it as completion.
LateEnd(u) ==
    /\ u \in late
    /\ Do(onend([Cur EXCEPT !.late = @ \ {u}], u),
          Op("lateEnd", reqs[u].inst, <<>>))
    /\ rep' = rep

LateError(u) ==
    /\ u \in late
    /\ Do(onerror([Cur EXCEPT !.late = @ \ {u}], u),
          Op("lateError", reqs[u].inst, <<>>))
    /\ rep' = rep

\* Two mounted controllers driven through speak, play, replay and stop, the
\* chat panel's also through pause, with every timer and engine event and
\* the renders of React in any order: a call may find the state of the last
\* render behind the updates queued since
Next ==
    \/ \E i \in Insts, t \in Texts : Speak(i, t)
    \/ \E i \in Insts : Play(i)
    \/ Pause(1)
    \/ \E i \in Insts : Replay(i)
    \/ \E i \in Insts : Stop(i)
    \/ Render
    \/ \E k \in 1..MaxReq : FireTimer(k)
    \/ \E c \in Catalogs : VoicesChanged(c)
    \/ Boundary("word")
    \/ End
    \/ Error
    \/ \E u \in 1..MaxReq : LateEnd(u)
    \/ \E u \in 1..MaxReq : LateError(u)

Spec == Init /\ [][Next]_vars

\* The chat panel's controller alone, played, paused, replayed and stopped,
\* with the engine's events and the renders of React in any order
RenderNext ==
    \/ \E t \in Texts : Speak(1, t)
    \/ Play(1)
    \/ Pause(1)
    \/ Replay(1)
    \/ Stop(1)
    \/ Render
    \/ \E k \in 1..MaxReq : FireTimer(k)
    \/ \E c \in Catalogs : VoicesChanged(c)
    \/ End
    \/ Error
    \/ \E u \in 1..MaxReq : LateError(u)

RenderSpec == Init /\ [][RenderNext]_vars

\* The speak requests of both controllers with the timers, the catalog
\* notification and the engine's events; a timer that is due fires.
LiveNext ==
    \/ \E i \in Insts, t \in Texts : Speak(i, t)
    \/ \E i \in Insts : Stop(i)
    \/ \E k \in 1..MaxReq : FireTimer(k)
    \/ \E c \in Catalogs : VoicesChanged(c)
    \/ End
    \/ \E u \in 1..MaxReq : LateError(u)

LiveSpec ==
    Init /\ [][LiveNext]_vars /\ WF_vars(\E k \in 1..MaxReq : FireTimer(k))

\* The chat panel's controller asked to speak with a catalog of any voices in
\* any order, loaded from the start or by one later notification
VoiceInit ==
    /\ TtsFresh([i \in Insts |-> "mounted"])
    /\ PanelFresh
    /\ text = [i \in Insts |-> wordsText(2)]
    /\ voices \in VoiceCatalogs
    /\ SttMounted(TRUE)

VoicesLoaded(c) == voices = <<>> /\ VoicesChanged(c)

VoiceNext ==
    \/ Speak(1, wordsText(2))
    \/ \E k \in 1..MaxReq : FireTimer(k)
    \/ \E c \in VoiceCatalogs : VoicesLoaded(c)
    \/ End

VoiceSpec == VoiceInit /\ [][VoiceNext]_vars

\* One controller reading out its bound text, of one of several lengths, the
\* engine reporting word and sentence boundaries and the end of each utterance
ProgInit ==
    /\ TtsFresh([i \in Insts |-> "mounted"])
    /\ PanelFresh
    /\ text \in { f \in [Insts -> ProgTexts] : f[2] = wordsText(2) }
    /\ voices \in Catalogs
    /\ SttMounted(TRUE)

ProgNext ==
    \/ Play(1)
    \/ \E k \in 1..MaxReq : FireTimer(k)
    \/ \E c \in Catalogs : VoicesChanged(c)
    \/ BoundaryWithin("word", MaxWordEvents)
    \/ BoundaryWithin("sentence", MaxWordEvents)
    \/ End

ProgSpec == ProgInit /\ [][ProgNext]_vars

\* The chat panel's controller failing and being restarted by speak and
\* replay; a timer that is due fires.
ErrNext ==
    \/ \E t \in Texts : Speak(1, t)
    \/ Replay(1)
    \/ \E k \in 1..MaxReq : FireTimer(k)
    \/ \E c \in Catalogs : VoicesChanged(c)
    \/ End
    \/ Error

ErrSpec ==
    Init /\ [][ErrNext]_vars /\ WF_vars(\E k \in 1..MaxReq : FireTimer(k))

\* The life cycle of the surfaces: the chat panel is mounted, the summary
\* player mounts later; texts are bound anew and surfaces unmount while
\* speech is requested, pending or spoken.
LifeInit ==
    /\ TtsFresh([i \in Insts |-> IF i = 1 THEN "mounted" ELSE "new"])
    /\ PanelFresh
    /\ text = [i \in Insts |-> <<>>]
    /\ voices \in Catalogs
    /\ SttMounted(TRUE)

LifeNext ==
    \/ Mount(2)
    \/ \E i \in Insts : Unmount(i)
    \/ \E t \in Texts : SetText(1, t)
    \/ \E i \in Insts : TextEffect(i)
    \/ \E i \in Insts : Cleanup(i)
    \/ Render
    \/ \E t \in Texts : Speak(1, t)
    \/ Pause(1)
    \/ Replay(1)
    \/ \E k \in 1..MaxReq : FireTimer(k)
    \/ \E c \in Catalogs : VoicesChanged(c)
    \/ Boundary("word")
    \/ End
    \/ Error

LifeSpec == LifeInit /\ [][LifeNext]_vars

\* ---- useSTT
SttDo(s, op) ==
    SttCommit(s) /\ lastOp' = op /\ UNCHANGED <<prog, rep, panelVars, syncVars>>

SttOp(name) == Op(name, 0, <<>>)

StartSTT ==
    /\ sttLife = "mounted"
    /\ SttDo(start(SttCur), SttOp("start"))

StopSTT ==
    /\ sttLife = "mounted"
    /\ SttDo(stopSTT(SttCur), SttOp("stopSTT"))

\* React renders useSTT after an update of `listening`, in a task of its
\* own
SttRender ==
    /\ sttLife = "mounted"
    /\ renderedListening # listening
    /\ SttDo(sttRender(SttCur), SttOp("render"))

UnmountSTT ==
    /\ sttLife = "mounted"
    /\ SttDo(sttUnmount(SttCur), SttOp("unmount"))

\* the cleanup of the setup effect runs, in a task after the unmount
CleanupSTT ==
    /\ abortDue
    /\ SttDo(sttCleanup(SttCur), SttOp("cleanup"))

\* what the engine may have recognized
Transcripts == { <<>>, <<" ">>, <<"a">> }
RawErrors == { "not-allowed", "permission-denied", "no-speech", "network",
               "aborted", "audio-capture" }

\* The engine reports on its session: a new entry of the result list, or
\* the last entry, still interim, revised or finalized.
ResultEvent(t, final) ==
    /\ session \in {"active", "stopping"}
    /\ Len(delivered) < MaxDelivered
    /\ \/ /\ Len(results) < MaxResults
          /\ SttDo(rec_onresult(
                     [SttCur EXCEPT !.results =
                         Append(@, [transcript |-> t, isFinal |-> final])],
                     Append(results, [transcript |-> t, isFinal |-> final])),
                   Op("result", 0, t))
       \/ /\ results # <<>>
          /\ ~results[Len(results)].isFinal
          /\ (final \/ t # results[Len(results)].transcript)
          /\ SttDo(rec_onresult(
                     [SttCur EXCEPT !.results[Len(results)] =
                         [transcript |-> t, isFinal |-> final]],
                     [results EXCEPT ![Len(results)] =
                         [transcript |-> t, isFinal |-> final]]),
                   Op("result", 0, t))

\* the engine's error event; its session then ends
ErrorEvent(raw) ==
    /\ session \in {"active", "stopping"}
    /\ SttDo(rec_onerror([SttCur EXCEPT !.session = "ending"], raw),
             Op("recError", 0, <<raw>>))

\* the engine's end event
EndEvent ==
    /\ session # "idle"
    /\ SttDo(rec_onend([SttCur EXCEPT !.session = "idle"]), SttOp("recEnd"))

\* The chat panel's speech input, on a platform with or without the
\* recognition engine
SttInit ==
    /\ TtsFresh([i \in Insts |-> "mounted"])
    /\ PanelFresh
    /\ text = [i \in Insts |-> IF i = 1 THEN <<>> ELSE wordsText(2)]
    /\ voices = <<>>
    /\ \E sr \in BOOLEAN : SttMounted(sr)

SttNext ==
    \/ StartSTT
    \/ StopSTT
    \/ SttRender
    \/ UnmountSTT
    \/ CleanupSTT
    \/ \E t \in Transcripts, final \in BOOLEAN : ResultEvent(t, final)
    \/ \E raw \in RawErrors : ErrorEvent(raw)
    \/ EndEvent

SttSpec == SttInit /\ [][SttNext]_vars

\* The same, with an engine that ends every session it has
SttLiveSpec == SttInit /\ [][SttNext]_vars /\ WF_vars(EndEvent)

\* the STT error banner of the chat panel for a value of stt.error
errorBanner(e) ==
    IF e = "null" THEN "none"
    ELSE IF e = "not-allowed"
         THEN "Mic access denied - allow in browser settings."
         ELSE IF e = "no-speech" THEN "No speech detected - try again."
              ELSE "Microphone error - try again."

\* ------------------------------------------------ useTTS, synchronous voices
\* v.name.includes("Google") || v.name.includes("Natural")
\*     || v.name.includes("Premium")
isEnhanced(n) ==
    n \in {"Google hindi", "Google US English", "Google English India"}

getBestVoice(vs) ==
    LET all == 1..Len(vs)
        r1 == { k \in all : startsWithEn(vs[k].lang) /\ isEnhanced(vs[k].name) }
        r2 == { k \in all : startsWithEn(vs[k].lang) }
    IN  IF r1 # {} THEN find(vs, r1) ELSE find(vs, r2)

\* _speak of the variant: the utterance is built and handed over in the call
speakNow(s, i, t) ==
    LET s1 == globalStop(s)
        r == Len(s.reqs) + 1
        s2 == [s1 EXCEPT !.reqs = Append(@,
                  [inst |-> i, text |-> t, settled |-> TRUE, voice |-> Null,
                   spoken |-> 0, wordIdx |-> 0])]
    IN  doSpeak(s2, r, getBestVoice(s.voices))

\* speak of the variant
speakSync(s, i, t) == IF Len(t) = 0 THEN s ELSE speakNow(s, i, t)

\* faulty variant: a handler that sets the voice of the utterance it was
\* made for
voicesHandlerSync_ownUtterance(s, h) ==
    IF getBestVoice(s.voices) # Null
    THEN [s EXCEPT !.reqs[h.req].voice = getBestVoice(s.voices)]
    ELSE s

\* the onvoiceschanged handler that the _speak call h set
voicesHandlerSync(s, h) ==
    IF getBestVoice(s.voices) # Null /\ s.uttRef[h.inst] # 0
    THEN [s EXCEPT !.reqs[s.uttRef[h.inst]].voice = getBestVoice(s.voices)]
    ELSE s

\* play of the variant
playSync(s, i) ==
    IF Len(s.text[i]) = 0 THEN s
    ELSE IF s.renderedPaused[i]
         THEN setState(engineResume(s), i, "playing")
         ELSE speakNow(s, i, s.text[i])

SyncDo(s, op) ==
    /\ Fits(s) /\ Commit(s) /\ lastOp' = op /\ rep' = NoRep
    /\ UNCHANGED <<sttVars, panelVars>>

\* speechSynthesis.onvoiceschanged after a _speak call of instance i: the
\* call sets its handler when it found no voice
handlerAfter(i) ==
    IF getBestVoice(voices) = Null THEN [inst |-> i, req |-> Len(reqs) + 1]
    ELSE onvoiceschanged

SpeakSync(i, t) ==
    /\ Mounted(i)
    /\ SyncDo(speakSync(Cur, i, t), Op("speak", i, t))
    /\ onvoiceschanged' = IF Len(t) # 0 THEN handlerAfter(i)
                          ELSE onvoiceschanged

PlaySync(i) ==
    /\ Mounted(i)
    /\ SyncDo(playSync(Cur, i), Op("play", i, text[i]))
    /\ onvoiceschanged' = IF Len(text[i]) # 0 /\ ~renderedPaused[i]
                          THEN handlerAfter(i) ELSE onvoiceschanged

\* the settle timer of a replay() of the variant: _speak(textRef.current)
FireTimerSync(k) ==
    /\ k \in 1..Len(timers)
    /\ canFire(Cur, k)
    /\ timers[k].kind = "replayTimeout"
    /\ SyncDo(speakNow(dropTimer(Cur, k), timers[k].arg, text[timers[k].arg]),
              Op("replayTimeout", timers[k].arg, <<>>))
    /\ onvoiceschanged' = handlerAfter(timers[k].arg)

SyncCatalogs == Catalogs \cup { <<VGoogleHi>> }

\* the catalog changes and the engine calls the handler, if one is set
VoicesChangedSync(c) ==
    /\ c # voices
    /\ SyncDo(IF onvoiceschanged.inst = 0 THEN [Cur EXCEPT !.voices = c]
              ELSE voicesHandlerSync([Cur EXCEPT !.voices = c],
                                     onvoiceschanged),
              Op("voiceschanged", onvoiceschanged.inst, <<>>))
    /\ UNCHANGED onvoiceschanged

\* Two controllers of the variant, the chat panel's driven through its whole
\* API, with the settle timer of replay, the catalog changing, the engine's
\* events and the renders of React in any order
SyncInit ==
    /\ TtsFresh([i \in Insts |-> "mounted"])
    /\ PanelFresh
    /\ text = [i \in Insts |-> wordsText(2)]
    /\ voices \in SyncCatalogs
    /\ SttMounted(TRUE)

SyncNext ==
    \/ \E i \in Insts, t \in Texts : SpeakSync(i, t)
    \/ PlaySync(1)
    \/ Pause(1)
    \/ Replay(1)
    \/ \E i \in Insts : Stop(i)
    \/ Render
    \/ \E k \in 1..MaxReq : FireTimerSync(k)
    \/ \E c \in SyncCatalogs : VoicesChangedSync(c)
    \/ Boundary("word")
    \/ End
    \/ Error
    \/ \E u \in 1..MaxReq : LateEnd(u)
    \/ \E u \in 1..MaxReq : LateError(u)

SyncSpec == SyncInit /\ [][SyncNext]_vars

\* The life cycle of the surfaces with controllers of the variant: the chat
\* panel's text is bound anew and surfaces unmount while speech is requested
\* or spoken, the summary player is played, paused and replayed
SyncLifeNext ==
    \/ \E t \in Texts : SpeakSync(1, t)
    \/ PlaySync(2)
    \/ Pause(2)
    \/ Replay(2)
    \/ Render
    \/ \E k \in 1..MaxReq : FireTimerSync(k)
    \/ \E c \in SyncCatalogs : VoicesChangedSync(c)
    \/ \E t \in Texts : SetText(1, t)
    \/ TextEffect(1)
    \/ \E i \in Insts : Unmount(i)
    \/ \E i \in Insts : Cleanup(i)
    \/ End
    \/ \E u \in 1..MaxReq : LateError(u)

SyncLifeSpec == SyncInit /\ [][SyncLifeNext]_vars

\* ------------------------------------------------ useSTT of the variant
\* Array.from(e.results).map(r => r[0].transcript).join(" ")
RECURSIVE joinTranscripts(_)
joinTranscripts(rs) ==
    IF rs = <<>> THEN <<>>
    ELSE IF Len(rs) = 1 THEN rs[1].transcript
    ELSE rs[1].transcript \o <<" ">> \o joinTranscripts(Tail(rs))

\* rec.onresult of the variant with e.results = rs
rec_onresultSync(s, rs) ==
    IF trim(joinTranscripts(rs)) # <<>>
    THEN Effect([s EXCEPT !.delivered = Append(@, trim(joinTranscripts(rs)))],
                "onResult")
    ELSE s

\* rec.onend and rec.onerror of the variant
rec_onendSync(s) == setListening(s, FALSE)

\* start() of the variant: a throwing engine start is swallowed
startSync(s) ==
    IF ~s.recognitionRef \/ s.renderedListening THEN s
    ELSE IF s.session # "idle" THEN Effect(s, "startThrew")
         ELSE setListening(
                  Effect([s EXCEPT !.session = "active", !.results = <<>>],
                         "start"),
                  TRUE)

\* stop() of the variant
stopSTTSync(s) ==
    LET s1 == IF ~s.recognitionRef THEN s
              ELSE Effect([s EXCEPT !.session =
                              IF @ = "active" THEN "stopping" ELSE @], "stop")
    IN  setListening(s1, FALSE)

StartSTTSync ==
    /\ sttLife = "mounted"
    /\ SttDo(startSync(SttCur), SttOp("start"))

StopSTTSync ==
    /\ sttLife = "mounted"
    /\ SttDo(stopSTTSync(SttCur), SttOp("stopSTT"))

\* the engine of the variant reports final results only
ResultEventSync(t) ==
    /\ session \in {"active", "stopping"}
    /\ Len(delivered) < MaxDelivered
    /\ Len(results) < MaxResults
    /\ SttDo(rec_onresultSync(
               [SttCur EXCEPT !.results =
                   Append(@, [transcript |-> t, isFinal |-> TRUE])],
               Append(results, [transcript |-> t, isFinal |-> TRUE])),
             Op("result", 0, t))

ErrorEventSync ==
    /\ session \in {"active", "stopping"}
    /\ SttDo(rec_onendSync([SttCur EXCEPT !.session = "ending"]),
             SttOp("recError"))

EndEventSync ==
    /\ session # "idle"
    /\ SttDo(rec_onendSync([SttCur EXCEPT !.session = "idle"]),
             SttOp("recEnd"))

SttSyncNext ==
    \/ StartSTTSync
    \/ StopSTTSync
    \/ SttRender
    \/ UnmountSTT
    \/ CleanupSTT
    \/ \E t \in Transcripts : ResultEventSync(t)
    \/ ErrorEventSync
    \/ EndEventSync

SttSyncSpec == SttInit /\ [][SttSyncNext]_vars

\* ------------------------------------------------ the chat panel
\* the effect "Stop audio when slide changes" on the controller
slideEffect(s) == globalStop(s)

\* readAloud(t) on the controller, up to its timer; the update of ttsText is
\* rendered in a later task
readAloud(s) == globalStop(s)

\* readAloud(t) called from a click, with the render of the click
readAloudClick(s, t, all) == clickRender(readAloud(s), t, all)

PanelDo(s, op) ==
    /\ Fits(s) /\ Commit(s) /\ lastOp' = op /\ rep' = NoRep
    /\ UNCHANGED <<sttVars, syncVars>>

Questions == { <<" ">>, <<"a">> }

\* the ids uid() makes, by their order
MessageIds == 1..(2 * MaxAsk)

Message(id, role, t) == [id |-> id, role |-> role, text |-> t]

\* the questions asked so far: each takes an id when it is sent and one for
\* its reply
asked == (uids + pending[Call("chat", 1)] + pending[Call("chat", 2)]) \div 2

\* the text a render that ends a click binds to the controller when the
\* click itself does not set ttsText
renderedText(all) == IF all THEN ttsText ELSE text[1]

\* what the render that ends a click sees: every update queued so far (the
\* messages of the slide shown being now), or the values of the last render
\* with the click's own update (seen)
seenAfter(all, now, seen) ==
    IF all
    THEN Shown(aiSummary, summaryLoading, [allMessages EXCEPT ![slide] = now])
    ELSE [shown EXCEPT !.allMessages[slide] = seen]

\* kps.join(". ")
RECURSIVE joinPoints(_)
joinPoints(kps) ==
    IF kps = <<>> THEN <<>>
    ELSE IF Len(kps) = 1 THEN kps[1]
    ELSE kps[1] \o <<".", " ">> \o joinPoints(Tail(kps))

\* messages.findIndex(m => m.id === id): counted from 0, -1 when none has it
findIndex(msgs, id) ==
    LET hits == { n \in 1..Len(msgs) : msgs[n].id = id }
    IN  IF hits = {} THEN -1
        ELSE (CHOOSE n \in hits : \A m \in hits : n <= m) - 1

\* prev.slice(0, idx)
slice(msgs, idx) ==
    LET end == IF idx < 0 THEN Len(msgs) + idx ELSE idx
    IN  SubSeq(msgs, 1, IF end > Len(msgs) THEN Len(msgs)
                        ELSE IF end < 0 THEN 0 ELSE end)

\* prev.filter(m => m.id !== id)
withoutId(msgs, id) == SelectSeq(msgs, LAMBDA m : m.id # id)

\* sendMessage up to its await, called from a click or a submit, with the
\* render of the click
SendMessage(q) ==
    /\ asked < MaxAsk
    /\ inFlight(pending) < MaxCalls
    /\ IF trim(q) = <<>>
       THEN /\ PanelDo(Cur, Op("sendMessage", 1, q))
            /\ UNCHANGED <<pending, allMessages, shown, uids>>
       ELSE \E all \in BOOLEAN :
              LET userMsg == Message(uids + 1, "user", trim(q))
              IN  /\ PanelDo(clickRender(Cur, renderedText(all), all),
                             Op("sendMessage", 1, q))
                  /\ pending' = [pending EXCEPT ![Call("chat", slide)] = @ + 1]
                  /\ allMessages' = [allMessages EXCEPT ![slide] =
                         Append(@, userMsg)]
                  /\ shown' = seenAfter(all,
                                  Append(allMessages[slide], userMsg),
                                  Append(shown.allMessages[slide], userMsg))
                  /\ uids' = uids + 1
    /\ UNCHANGED <<slide, readTimers, ai, ttsText, aiSummary, summaryLoading>>

\* getAIResponse settles and sendMessage goes on behind its await
ChatReply(o) ==
    \E k \in Slides :
        /\ pending[Call("chat", k)] > 0
        /\ Len(readTimers) < MaxReadTimers
        /\ LET res == getAIResponse(o, k)
           IN  /\ ai' = [fn |-> "chat", slide |-> k, http |-> o,
                         tag |-> res.tag, value |-> res.value]
               /\ pending' = [pending EXCEPT ![Call("chat", k)] = @ - 1]
               /\ IF res.tag = "resolved"
                  THEN /\ PanelDo(readAloud(Cur),
                                  Op("chatReply", 1, res.value.text))
                       /\ allMessages' = [allMessages EXCEPT ![k] =
                              Append(@, Message(uids + 1, "ai",
                                                res.value.text))]
                       /\ uids' = uids + 1
                       /\ ttsText' = res.value.text
                       /\ readTimers' =
                              Append(readTimers, [text |-> res.value.text,
                                                  slide |-> k])
                  ELSE /\ PanelDo(Cur, Op("chatReply", 1, <<>>))
                       /\ UNCHANGED <<allMessages, uids, ttsText, readTimers>>
        /\ UNCHANGED <<slide, aiSummary, summaryLoading, shown>>

\* getAISummaryData settles: setAiSummary(result); setSummaryLoading(false)
SummaryReply(o) ==
    \E k \in Slides :
        /\ pending[Call("summary", k)] > 0
        /\ LET res == getAISummaryData(o, k)
           IN  /\ ai' = [fn |-> "summary", slide |-> k, http |-> o,
                         tag |-> res.tag, value |-> res.value]
               /\ IF res.tag = "resolved"
                  THEN aiSummary' = << res.value >> /\ summaryLoading' = FALSE
                  ELSE UNCHANGED <<aiSummary, summaryLoading>>
        /\ pending' = [pending EXCEPT ![Call("summary", k)] = @ - 1]
        /\ PanelDo(Cur, Op("summaryReply", 1, <<>>))
        /\ UNCHANGED <<slide, readTimers, ttsText, allMessages, shown, uids>>

\* a click shows another slide: the panel is rendered with it and the
\* effects of [slide.id] run: the summary is fetched, the engine is stopped,
\* setTtsText("")
SlideChange(k) ==
    \E all \in BOOLEAN :
        /\ k # slide
        /\ inFlight(pending) < MaxCalls
        /\ slide' = k
        /\ aiSummary' = <<>>
        /\ summaryLoading' = TRUE
        /\ pending' = [pending EXCEPT ![Call("summary", k)] = @ + 1]
        /\ ttsText' = <<>>
        /\ shown' = IF all THEN Shown(aiSummary, summaryLoading, allMessages)
                    ELSE shown
        /\ PanelDo(slideEffect(clickRender(Cur, renderedText(all), all)),
                   Op("slideChange", 1, <<>>))
        /\ UNCHANGED <<readTimers, ai, allMessages, uids>>

\* a click on the Delete button of a message the panel shows
DeleteMessage(id) ==
    \E all \in BOOLEAN :
        /\ findIndex(shown.allMessages[slide], id) >= 0
        /\ PanelDo(clickRender(Cur, renderedText(all), all),
                   Op("deleteMessage", 1, <<>>))
        /\ allMessages' = [allMessages EXCEPT ![slide] = withoutId(@, id)]
        /\ shown' = seenAfter(all, withoutId(allMessages[slide], id),
                              withoutId(shown.allMessages[slide], id))
        /\ UNCHANGED <<slide, pending, readTimers, ai, ttsText, aiSummary,
                       summaryLoading, uids>>

\* a click on the Send button of the edit box of a question the panel shows,
\* the box holding the text q: confirmEdit up to the await of its sendMessage
ConfirmEdit(id, q) ==
    /\ \E n \in 1..Len(shown.allMessages[slide]) :
          /\ shown.allMessages[slide][n].id = id
          /\ shown.allMessages[slide][n].role = "user"
    /\ asked < MaxAsk
    /\ inFlight(pending) < MaxCalls
    /\ IF trim(q) = <<>>
       THEN /\ PanelDo(Cur, Op("confirmEdit", 1, q))
            /\ UNCHANGED <<pending, allMessages, shown, uids>>
       ELSE \E all \in BOOLEAN :
              LET idx == findIndex(shown.allMessages[slide], id)
                  userMsg == Message(uids + 1, "user", trim(trim(q)))
              IN  /\ PanelDo(clickRender(Cur, renderedText(all), all),
                             Op("confirmEdit", 1, q))
                  /\ pending' = [pending EXCEPT ![Call("chat", slide)] = @ + 1]
                  /\ allMessages' = [allMessages EXCEPT ![slide] =
                         Append(slice(@, idx), userMsg)]
                  /\ shown' = seenAfter(all,
                         Append(slice(allMessages[slide], idx), userMsg),
                         Append(slice(shown.allMessages[slide], idx), userMsg))
                  /\ uids' = uids + 1
    /\ UNCHANGED <<slide, readTimers, ai, ttsText, aiSummary, summaryLoading>>

\* the panel renders, in a task of its own, the updates queued by timers,
\* promises, effects and engine events: useTTS(ttsText)
PanelRender ==
    /\ Mounted(1)
    /\ \/ ttsText # text[1]
       \/ shown # Shown(aiSummary, summaryLoading, allMessages)
       \/ RenderDue
    /\ PanelDo(setText(Cur, 1, ttsText), Op("render", 1, ttsText))
    /\ shown' = Shown(aiSummary, summaryLoading, allMessages)
    /\ UNCHANGED <<slide, pending, readTimers, ai, ttsText, aiSummary,
                   summaryLoading, allMessages, uids>>

\* the texts a Listen or Read button of the panel reads out: the summary
\* and its key points once the panel shows them, the AI messages it shows
\* for the slide
readable ==
    (IF shown.aiSummary # <<>> /\ ~shown.summaryLoading
     THEN { shown.aiSummary[1].text, joinPoints(shown.aiSummary[1].keyPoints) }
     ELSE {})
      \cup { shown.allMessages[slide][j].text :
                j \in { n \in 1..Len(shown.allMessages[slide]) :
                           shown.allMessages[slide][n].role = "ai" } }

\* a click on a Listen or Read button: readAloud(t)
ReadAloudClick(t) ==
    \E all \in BOOLEAN :
        /\ Mounted(1)
        /\ t \in readable
        /\ Len(readTimers) < MaxReadTimers
        /\ PanelDo(readAloudClick(Cur, t, all), Op("readAloud", 1, t))
        /\ ttsText' = t
        /\ readTimers' = Append(readTimers, [text |-> t, slide |-> slide])
        /\ shown' = IF all THEN Shown(aiSummary, summaryLoading, allMessages)
                    ELSE shown
        /\ UNCHANGED <<slide, pending, ai, aiSummary, summaryLoading,
                       allMessages, uids>>

\* the 60 ms timer of readAloud
ReadAloudTimeout ==
    /\ readTimers # <<>>
    /\ PanelDo(speak(Cur, 1, Head(readTimers).text),
               Op("readAloudTimeout", 1, Head(readTimers).text))
    /\ readTimers' = Tail(readTimers)
    /\ UNCHANGED <<slide, pending, ai, ttsText, aiSummary, summaryLoading,
                   allMessages, shown, uids>>

\* The panel on its summary or chat tab (the summary player is not
\* mounted), with the voice catalog loaded
PanelInit ==
    /\ TtsFresh([i \in Insts |-> IF i = 1 THEN "mounted" ELSE "new"])
    /\ PanelFresh
    /\ text = [i \in Insts |-> <<>>]
    /\ voices = <<VGoogleHi, VGoogleUS, VLekha>>
    /\ SttMounted(TRUE)

\* a network error, and an OK response with the text of the backend
NetworkError == [net |-> "error", ok |-> FALSE, body |-> NoBody]
BackendReply ==
    [net |-> "ok", ok |-> TRUE,
     body |-> [json |-> "object", reply |-> Str(BackendText),
               description |-> Missing, keyPoints |-> "missing"]]

\* The panel with its questions, edits, deletions, slide changes, renders,
\* Read buttons and timers, the backend answering or being out of reach,
\* and the engine's events
PanelNext ==
    \/ \E q \in Questions : SendMessage(q)
    \/ \E o \in {NetworkError, BackendReply} : ChatReply(o)
    \/ \E k \in Slides : SlideChange(k)
    \/ \E id \in MessageIds : DeleteMessage(id)
    \/ \E id \in MessageIds, q \in Questions : ConfirmEdit(id, q)
    \/ PanelRender
    \/ TextEffect(1)
    \/ \E t \in readable : ReadAloudClick(t)
    \/ ReadAloudTimeout
    \/ End
    \/ \E u \in 1..MaxReq : LateError(u)

PanelSpec == PanelInit /\ [][PanelNext]_vars

\* The panel with its summary arriving and its Listen and Read buttons, one
\* question asked and the slide changed once
ListenNext ==
    \/ asked = 0 /\ SendMessage(<<"a">>)
    \/ ChatReply(BackendReply)
    \/ SummaryReply(NetworkError)
    \/ slide = 1 /\ SlideChange(2)
    \/ PanelRender
    \/ TextEffect(1)
    \/ \E t \in readable : ReadAloudClick(t)
    \/ ReadAloudTimeout
    \/ End

ListenSpec == PanelInit /\ [][ListenNext]_vars

\* The collaborator calls of the panel, for one question and the summaries
\* of the first slide and of the slide shown next, with every outcome of
\* the HTTP request
AiNext ==
    \/ asked = 0 /\ SendMessage(<<"a">>)
    \/ \E o \in ChatOutcomes : ChatReply(o)
    \/ \E o \in SummaryOutcomes : SummaryReply(o)
    \/ slide = 1 /\ SlideChange(2)

AiSpec == PanelInit /\ [][AiNext]_vars

TypeOK ==
    /\ state \in [Insts -> {"idle", "playing", "paused", "done", "error"}]
    /\ progress \in [Insts -> 0..100]
    /\ Len(reqs) <= MaxReq


\* ================================================== the claims
Active(i) == state[i] \in {"playing", "paused"}

\* instance i is in Playing or Paused for an utterance it handed to the engine
Started(i) == Active(i) /\ uttRef[i] # 0

\* C1 (as claimed): single speaker.  No two controller instances are in
\* Playing or Paused at the same instant, each for an utterance of its own.
C1_SingleSpeaker ==
    \A a \in Insts, b \in Insts : (a # b /\ Started(a)) => ~Started(b)

\* C2 (as claimed): most recent request wins.  The engine never holds more
\* than one queued-or-speaking utterance, and the one it holds is that of
\* the most recent _speak call.
C2_MostRecentWins ==
    /\ Len(queue) <= 1
    /\ queue # <<>> => Head(queue) = Len(reqs)


\* C3 (as claimed): every call of speak, stop and replay invokes the
\* process-wide stop primitive as its first effect.
C3_EveryCallStopsFirst ==
    lastOp.op \in {"speak", "stop", "replay"} =>
        (fx # <<>> /\ Head(fx) = "cancel")

\* C3 (amended): every call of stop and replay, and every call of speak with
\* a non-empty text, cancels the engine as its first effect, before any
\* state change and before any utterance is handed to the engine.
C3_StopFirst ==
    (\/ lastOp.op \in {"stop", "replay"}
     \/ (lastOp.op = "speak" /\ lastOp.t # <<>>)) =>
        (fx # <<>> /\ Head(fx) = "cancel")

\* a speak(text) that cancelled the engine and then handed over its utterance
C3_Witness ==
    /\ lastOp.op = "speak"
    /\ lastOp.t # <<>>
    /\ fx = <<"cancel", "utterance", "uttRef", "speak", "setState">>

\* C4 (as claimed): every state change follows the documented state machine.
Allowed(from, to, op) ==
    CASE to = "playing" ->
            \/ /\ from \in {"idle", "done", "error"}
               /\ op \in {"speak", "play", "replayTimeout", "voiceTimeout",
                          "voiceschanged"}
            \/ from = "paused" /\ op = "play"
      [] to = "paused" -> from = "playing" /\ op = "pause"
      [] to = "done" -> from = "playing"
      [] to = "error" -> op \in {"error", "lateError"}
      [] to = "idle" -> op \in {"stop", "replay", "setText", "mount"}

C4_StateMachine ==
    [][\A i \in Insts :
          state'[i] # state[i] => Allowed(state[i], state'[i], lastOp'.op)]_vars

\* C6: speak("") is a no-op from every state: the session, the utterance
\* reference, the pending starts and the engine are unchanged, and the
\* handler has no effect at all (no cancel, no speak).
C6_SpeakEmptyNoop ==
    [][(lastOp'.op = "speak" /\ lastOp'.t = <<>>) =>
          (UNCHANGED prog /\ fx' = <<>>)]_vars

\* speak("") was called on a controller that is playing its utterance
C6_Witness ==
    /\ lastOp.op = "speak"
    /\ lastOp.t = <<>>
    /\ state[lastOp.i] = "playing"
    /\ queue = <<uttRef[lastOp.i]>>

\* C7 (as claimed): pause() acts only in Playing (engine paused, state
\* Paused); in every other state it leaves state and progress unchanged.
C7_PauseOnlyWhilePlaying ==
    [][\A i \in Insts :
          lastOp' = Op("pause", i, <<>>) =>
              IF state[i] = "playing"
              THEN state'[i] = "paused" /\ paused'
              ELSE state' = state /\ progress' = progress]_vars

\* C8 (as claimed): pause() in Playing gives Paused with the engine paused,
\* and a play() that follows the pause() gives Playing by resuming the
\* engine only: no cancel, no new utterance, progress kept.
C8_PauseResume ==
    [][\A i \in Insts :
          /\ (lastOp' = Op("pause", i, <<>>) /\ state[i] = "playing") =>
                (state'[i] = "paused" /\ paused')
          /\ (/\ lastOp'.op = "play" /\ lastOp'.i = i
              /\ lastOp = Op("pause", i, <<>>)
              /\ state[i] = "paused"
              /\ uttRef[i] # 0 /\ uttRef[i] \in Range(queue)) =>
                (/\ state'[i] = "playing"
                 /\ ~paused'
                 /\ fx' = <<"resume", "setState">>
                 /\ queue' = queue
                 /\ reqs' = reqs
                 /\ progress' = progress)]_vars

\* C9 (as claimed): play() in any state other than Paused has the effect
\* of speak(bound text) on the session and the engine, and play() with an
\* empty bound text is a no-op in every state.
C9_PlayIsSpeak ==
    [][\A i \in Insts :
          (lastOp'.op = "play" /\ lastOp'.i = i) =>
              /\ state[i] # "paused" => Commit(speak(Cur, i, text[i]))
              /\ text[i] = <<>> => (UNCHANGED prog /\ fx' = <<>>)]_vars

\* C10 (as claimed): replay() from Playing, Paused, Done or Error leads, with
\* no other call in between, to Playing with progress 0 when its utterance
\* is handed to the engine.
spokenIn(rs, r) == IF r \in 1..Len(rs) THEN rs[r].spoken ELSE 0

C10_ReplayResets ==
    [][(/\ rep'.req # 0
        /\ rep'.from \in {"playing", "paused", "done", "error"}
        /\ spokenIn(reqs, rep'.req) = 0
        /\ spokenIn(reqs', rep'.req) = 1) =>
          (/\ state'[rep'.i] = "playing"
           /\ progress'[rep'.i] = 0)]_vars


\* C5: every speak(text) with a non-empty text hands exactly one utterance
\* to the engine, eventually, and enters Playing as it does; when the
\* catalog is still empty then (the 2000 ms timeout) no voice is set; and
\* never a second utterance, also when both the catalog notification and
\* the timeout fire.
C5_SpeakStarts ==
    /\ \A r \in 1..MaxReq :
          (r <= Len(reqs)) ~> (r <= Len(reqs) /\ reqs[r].spoken = 1)
    /\ [](\A r \in 1..Len(reqs) : reqs[r].spoken <= 1)
    /\ [][\A r \in 1..Len(reqs') :
             (spokenIn(reqs, r) = 0 /\ reqs'[r].spoken = 1) =>
                 /\ state'[reqs'[r].inst] = "playing"
                 /\ reqs'[r].text # <<>>
                 /\ r \in Range(queue')
                 /\ voices' = <<>> => reqs'[r].voice = Null]_vars

\* the catalog never loaded: the timeout started the utterance, no voice set
C5_Witness ==
    /\ lastOp.op = "voiceTimeout"
    /\ voices = <<>>
    /\ reqs[lastOp.i].spoken = 1
    /\ reqs[lastOp.i].voice = Null
    /\ state[reqs[lastOp.i].inst] = "playing"
    /\ queue = <<lastOp.i>>

\* C11: stop() in any state cancels the engine and leaves the session in
\* Idle with progress 0 and no current utterance.
C11_StopResets ==
    \A i \in Insts :
        lastOp = Op("stop", i, <<>>) =>
            /\ fx # <<>> /\ Head(fx) = "cancel"
            /\ queue = <<>>
            /\ state[i] = "idle"
            /\ progress[i] = 0
            /\ uttRef[i] = 0

\* stop() on a session whose utterance was being spoken and had progressed:
\* the engine is empty and not paused
C11_Witness ==
    /\ lastOp.op = "stop"
    /\ ~paused
    /\ \E u \in late : reqs[u].inst = lastOp.i /\ reqs[u].wordIdx > 0
    /\ state[lastOp.i] = "idle"
    /\ progress[lastOp.i] = 0

\* C12: stop() is idempotent.  In Idle it leaves Idle and progress 0, and a
\* second stop() changes nothing of the session and the engine: stop();stop()
\* gives the state a single stop() gives.
C12_StopIdempotent ==
    /\ [](\A i \in Insts :
            /\ (state[i] = "idle" /\ progress[i] = 0) =>
                  (stop(Cur, i).state[i] = "idle"
                   /\ stop(Cur, i).progress[i] = 0)
            /\ [stop(stop(Cur, i), i) EXCEPT !.fx = <<>>]
                  = [stop(Cur, i) EXCEPT !.fx = <<>>])
    /\ [][\A i \in Insts :
             (lastOp = Op("stop", i, <<>>) /\ lastOp' = Op("stop", i, <<>>))
                 => UNCHANGED prog]_vars

\* stop() was called on a controller that was Idle and had never spoken
C12_Witness ==
    /\ lastOp.op = "stop"
    /\ reqs = <<>>
    /\ timers = <<>>
    /\ ~paused
    /\ state[lastOp.i] = "idle"
    /\ progress[lastOp.i] = 0

\* C13 (as claimed): while a controller is in Playing or Paused for its
\* current utterance, its progress never decreases, is at most 99, and
\* becomes 100 only by the end event of that utterance, with state Done.
C13_ProgressMonotone ==
    [][\A i \in Insts :
          (/\ uttRef[i] # 0
           /\ uttRef'[i] = uttRef[i]
           /\ state[i] \in {"playing", "paused"}) =>
              /\ progress[i] <= 99
              /\ progress'[i] >= progress[i]
              /\ progress'[i] = 100 =>
                    (/\ lastOp'.op = "end"
                     /\ Head(queue) = uttRef[i]
                     /\ state'[i] = "done")]_vars

\* C14 (as claimed): after the k-th word boundary of an utterance of N
\* words the progress is min(99, round(100 k / N)), a boundary of another
\* kind leaves the progress unchanged, and the end event gives 100 and Done.
C14_ProgressFormula ==
    [][/\ lastOp'.op = "boundary" =>
             LET u == Head(queue)
                 i == reqs[u].inst
                 N == splitLength(reqs[u].text)
                 k == reqs'[u].wordIdx
                 rounded == (200 * k + N) \div (2 * N)
             IN  IF lastOp'.t = <<"word">>
                 THEN progress'[i] = IF rounded < 99 THEN rounded ELSE 99
                 ELSE progress' = progress
       /\ lastOp'.op = "end" =>
             (progress'[lastOp'.i] = 100 /\ state'[lastOp'.i] = "done")]_vars

\* C15 (as claimed): whenever a controller enters Playing with a new
\* utterance, its progress is 0 at that moment.
C15_NewRequestResets ==
    [][\A i \in Insts :
          (uttRef'[i] # uttRef[i] /\ state'[i] = "playing") =>
              progress'[i] = 0]_vars

\* C16: the engine's failure callback sets the state to Error and does
\* nothing else (no engine call, no timer, no new request: no retry); a
\* speak(text) or replay() called in Error then starts a new utterance,
\* which is handed to the engine with the state Playing.
C16_ErrorThenRestart ==
    /\ [][lastOp'.op = "error" =>
             /\ state'[lastOp'.i] = "error"
             /\ fx' = <<"setState">>
             /\ queue' = Tail(queue)
             /\ UNCHANGED <<reqs, timers, listeners, uttRef, progress>>]_vars
    /\ [][\A i \in Insts :
             (/\ state[i] = "error"
              /\ lastOp' = Op("speak", i, lastOp'.t)
              /\ lastOp'.t # <<>>) =>
                 /\ Len(reqs') = Len(reqs) + 1
                 /\ reqs'[Len(reqs')].inst = i
                 /\ reqs'[Len(reqs')].text = lastOp'.t]_vars
    /\ [][\A r \in 1..Len(reqs') :
             (spokenIn(reqs, r) = 0 /\ reqs'[r].spoken = 1) =>
                 (state'[reqs'[r].inst] = "playing" /\ r \in Range(queue'))]_vars
    /\ \A r \in 1..MaxReq :
          (r <= Len(reqs)) ~> (r <= Len(reqs) /\ reqs[r].spoken = 1)
    /\ \A i \in Insts :
          (lastOp = Op("replay", i, <<>>) /\ rep.from = "error")
              ~> (state[i] = "playing")

\* a replay() called in Error has handed a new utterance to the engine
C16_Witness ==
    /\ rep.from = "error"
    /\ rep.req # 0
    /\ reqs[rep.req].spoken = 1
    /\ state[rep.i] = "playing"
    /\ queue = <<rep.req>>

\* C17 (as claimed): the effect of a change of the bound text cancels the
\* engine and resets the session to Idle with progress 0, and no utterance
\* of another text, requested before the change, is handed to the engine
\* after it.
C17_TextChangeResets ==
    [][\A i \in Insts :
          /\ (lastOp'.op = "textEffect" /\ lastOp'.i = i) =>
                /\ fx' # <<>> /\ Head(fx') = "cancel"
                /\ queue' = <<>>
                /\ state'[i] = "idle"
                /\ progress'[i] = 0
          /\ (lastOp.op = "textEffect" /\ lastOp.i = i) =>
                \A r \in 1..Len(reqs) :
                    (reqs[r].inst = i /\ reqs[r].text # text[i]) =>
                        reqs'[r].spoken = reqs[r].spoken]_vars

\* instance i has unmounted and the cleanup of its mount effect has run
Unmounted(i) == life[i] = "gone" /\ i \notin effectDue

\* C18 (as claimed): the engine never holds an utterance of an instance that
\* has unmounted (the cleanup of the unmount empties the engine, so such an
\* utterance was handed over after it).
C18_UnmountStops ==
    \A u \in Range(queue) : ~Unmounted(reqs[u].inst)

\* C19 (as claimed): start() while listening is a no-op (nothing of the
\* controller or the engine changes, the engine's start is not called), and
\* so is every start() where the platform has no recognition engine: there
\* supported is false and listening stays false whatever is called.
C19_StartNoop ==
    /\ [][(lastOp'.op = "start" /\ (listening \/ ~hasSR)) =>
             (UNCHANGED sttVars /\ fx' = <<>>)]_vars
    /\ [](~hasSR => (~supported /\ ~listening /\ session = "idle"))

\* C20 (as claimed): start() on a supported controller that is not
\* listening sets the error to null and the interim text to empty before it
\* calls the engine, and when the engine's start succeeds the session is
\* Listening.
C20_StartClears ==
    [][(lastOp'.op = "start" /\ recognitionRef /\ ~listening) =>
          /\ error' = "null"
          /\ interim' = <<>>
          /\ Len(fx') >= 2
          /\ SubSeq(fx', 1, 2) = <<"setError", "setInterim">>
          /\ session = "idle" =>
                /\ fx' = <<"setError", "setInterim", "start", "setListening">>
                /\ session' = "active"
                /\ listening']_vars

\* the number of finalized entries of a result list
finalCount(rs) == Cardinality({ k \in 1..Len(rs) : rs[k].isFinal })

\* C21: a start() whose engine start throws, a native session being
\* active, swallows the exception: the call ends with the throw, nothing
\* reaches the caller, the error is null, and the controller is not marked
\* as failed: listening is what it was (true in the double-start race), and
\* the native session goes on untouched.
C21_StartThrowSwallowed ==
    [][(lastOp'.op = "start" /\ session # "idle" /\ fx' # <<>>) =>
          /\ fx' = <<"setError", "setInterim", "startThrew">>
          /\ error' = "null"
          /\ listening' = listening
          /\ UNCHANGED <<session, results, delivered, supported>>]_vars

\* the double-start race: a second start() before the render of the first
\* found the native session active; the controller is still listening
C21_Witness ==
    /\ lastOp.op = "start"
    /\ fx = <<"setError", "setInterim", "startThrew">>
    /\ listening
    /\ ~renderedListening
    /\ session = "active"
    /\ error = "null"

\* C22: stop() asks the engine to end its session and, in the same step,
\* sets listening to false and the interim text to empty, leaving the error
\* as it is; when not listening it changes nothing but the interim text.
C22_StopImmediate ==
    [][lastOp'.op = "stopSTT" =>
          /\ ~listening'
          /\ interim' = <<>>
          /\ error' = error
          /\ recognitionRef => (fx' # <<>> /\ Head(fx') = "stop")
          /\ session = "active" => session' = "stopping"
          /\ session # "active" => session' = session
          /\ UNCHANGED <<results, delivered, supported, recognitionRef>>]_vars

\* stop() during a session: not listening at once, the engine still ending
C22_Witness ==
    /\ lastOp.op = "stopSTT"
    /\ session = "stopping"
    /\ ~listening
    /\ interim = <<>>
    /\ results # <<>>

\* C23 (as claimed): a result event of a mounted controller delivers a
\* transcript to the consumer only when it brings a newly finalized entry,
\* and after a delivery the interim text is empty.
C23_DeliveredOnce ==
    [][(/\ lastOp'.op = "result"
        /\ sttLife = "mounted"
        /\ delivered' # delivered) =>
          /\ finalCount(results') > finalCount(results)
          /\ interim' = <<>>]_vars

\* C24 (as claimed), for a mounted controller: after a result batch that
\* holds a finalized entry, no interim text, and whose finalized text is
\* empty or blank when concatenated and trimmed, nothing was delivered and
\* the interim text is empty.
C24_EmptyFinalSuppressed ==
    [][(/\ lastOp'.op = "result"
        /\ sttLife = "mounted"
        /\ finalCount(results') > 0
        /\ interimTextOf(results') = <<>>
        /\ trim(finalTextOf(results')) = <<>>) =>
          /\ delivered' = delivered
          /\ interim' = <<>>]_vars

\* C25 (as claimed), for a mounted controller: after a result batch
\* without a finalized entry the interim text is the concatenation of the
\* batch's transcripts.
C25_InterimOverwritten ==
    [][(/\ lastOp'.op = "result"
        /\ sttLife = "mounted"
        /\ finalCount(results') = 0) =>
          interim' = interimTextOf(results')]_vars

\* C26: the engine's end event sets listening to false and the interim
\* text to empty and leaves the error as it is, whether or not stop() was
\* called; with an engine that ends its sessions, a mounted controller that
\* is listening is eventually not listening.
C26_EndIsTerminal ==
    /\ [][(lastOp'.op = "recEnd" /\ sttLife = "mounted") =>
             /\ ~listening'
             /\ interim' = <<>>
             /\ error' = error
             /\ session' = "idle"]_vars
    /\ (listening /\ sttLife = "mounted") ~> (~listening \/ sttLife = "gone")

\* the engine ended a session by itself while the controller was listening
C26_Witness ==
    /\ lastOp.op = "recEnd"
    /\ sttLife = "mounted"
    /\ ~listening
    /\ interim = <<>>
    /\ results # <<>>
    /\ delivered = <<>>
    /\ error = "null"

\* C27 (as claimed), for a mounted controller: after an error event
\* listening is false and the error is the kind of the raw identifier: the
\* permission kind, no-speech, network, or, for every other identifier, a
\* fourth kind (an error, not the null of "no error").
C27_ErrorMapping ==
    [][(lastOp'.op = "recError" /\ sttLife = "mounted") =>
          /\ ~listening'
          /\ LET raw == lastOp'.t[1]
             IN  IF raw \in {"not-allowed", "permission-denied"}
                 THEN error' = "not-allowed"
                 ELSE IF raw \in {"no-speech", "network"}
                      THEN error' = raw
                      ELSE error' \notin {"null", "not-allowed", "no-speech",
                                          "network"}]_vars

\* C28 (as claimed), for a mounted controller: after an error event the
\* chat panel shows the message of the error (permission, no-speech, or the
\* generic one for every other identifier), and keeps showing it until the
\* next start().
C28_ErrorSurfaced ==
    [][/\ (lastOp'.op = "recError" /\ sttLife = "mounted") =>
             LET raw == lastOp'.t[1]
             IN  errorBanner(error') =
                     IF raw \in {"not-allowed", "permission-denied"}
                     THEN "Mic access denied - allow in browser settings."
                     ELSE IF raw = "no-speech"
                          THEN "No speech detected - try again."
                          ELSE "Microphone error - try again."
       /\ lastOp'.op \notin {"start", "recError"} =>
             errorBanner(error') = errorBanner(error)]_vars

\* the preference rule a voice falls under: 1 Google en-IN, 2 a named Indian
\* en-IN voice, 3 any en-IN voice, 4 a Google voice of an "en" language,
\* 5 any voice of an "en" language, 6 none
ruleOf(v) ==
    IF v.lang = "en-IN" /\ includesGoogle(v.name) THEN 1
    ELSE IF v.lang = "en-IN" /\ isNamedIndian(v.name) THEN 2
    ELSE IF v.lang = "en-IN" THEN 3
    ELSE IF startsWithEn(v.lang) /\ includesGoogle(v.name) THEN 4
    ELSE IF startsWithEn(v.lang) THEN 5
    ELSE 6

\* v is what the preference rules give for the catalog vs
isPreferred(vs, v) ==
    /\ (v = Null) <=> (\A k \in 1..Len(vs) : ~startsWithEn(vs[k].lang))
    /\ v # Null =>
          \E k \in 1..Len(vs) :
              /\ v = vs[k]
              /\ ruleOf(vs[k]) < 6
              /\ \A j \in 1..Len(vs) : ruleOf(vs[j]) >= ruleOf(vs[k])
              /\ \A j \in 1..(k - 1) : ruleOf(vs[j]) > ruleOf(vs[k])

\* C29: the voice chosen for an utterance from a catalog snapshot (at the
\* call, or at the catalog notification) is the first voice, in catalog
\* order, of the highest-priority rule that any voice matches, and is null
\* exactly when no voice has a language starting with "en".
C29_VoicePreference ==
    [][\A r \in 1..Len(reqs') :
          (/\ spokenIn(reqs, r) = 0
           /\ reqs'[r].spoken = 1
           /\ lastOp'.op # "voiceTimeout") =>
              isPreferred(voices', reqs'[r].voice)]_vars

\* a named Indian voice chosen over an earlier plain en-IN voice and an
\* earlier Google voice of another "en" language
C29_Witness ==
    /\ voices = <<VGoogleUS, VRishi, VLekha>>
    /\ lastOp.op = "speak"
    /\ reqs # <<>>
    /\ reqs[Len(reqs)].spoken = 1
    /\ reqs[Len(reqs)].voice = VLekha

\* the voice timers of request r that are still to fire
voiceTimersOf(ts, r) ==
    { k \in 1..Len(ts) : ts[k].kind = "voiceTimeout" /\ ts[k].arg = r }

\* C30: the voice resolution of every request settles.  It settles in the
\* call when the catalog is not empty; otherwise it waits with a listener
\* and a 2000 ms timer and settles at the first catalog notification or at
\* the timeout, whichever is first, at the timeout with null; a settled
\* resolution stays settled.
C30_VoiceSettles ==
    /\ \A r \in 1..MaxReq :
          (r <= Len(reqs)) ~> (r <= Len(reqs) /\ reqs[r].settled)
    /\ [][\A r \in 1..Len(reqs') :
             /\ r > Len(reqs) =>
                   IF voices # <<>>
                   THEN reqs'[r].settled
                   ELSE /\ ~reqs'[r].settled
                        /\ r \in Range(listeners')
                        /\ \E k \in voiceTimersOf(timers', r) :
                              timers'[k].delay = VoiceTimeoutMs
             /\ (r <= Len(reqs) /\ reqs[r].settled) => reqs'[r].settled
             /\ (r <= Len(reqs) /\ ~reqs[r].settled /\ reqs'[r].settled) =>
                   /\ lastOp'.op \in {"voiceschanged", "voiceTimeout"}
                   /\ lastOp'.op = "voiceTimeout" =>
                         /\ lastOp'.i = r
                         /\ voices' = <<>>
                         /\ reqs'[r].voice = Null
             /\ lastOp'.op = "voiceschanged" => reqs'[r].settled]_vars

\* the catalog notification came before the timeout: the waiting request
\* is settled with the catalog's voice while its timer is still to fire
C30_Witness ==
    /\ lastOp.op = "voiceschanged"
    /\ reqs # <<>>
    /\ reqs[1].settled
    /\ reqs[1].voice = VLekha
    /\ voiceTimersOf(timers, 1) # {}
    /\ listeners = <<>>

\* C39 (as claimed): whenever the speech-input controller is not listening
\* its interim text is empty.
C39_InterimOnlyWhileListening ==
    (sttLife = "mounted" /\ ~listening) => interim = <<>>

\* C40: the error of the speech-input controller changes only on an engine
\* error event and on a start() that is not a no-op, which sets it to null;
\* stop(), result events, the end event, a render, the unmount and a no-op
\* start() leave it as it is.  A start() on a listening controller leaves
\* it as it is also when it is not a no-op (called before the render of the
\* start before it), because a listening controller has no error.
C40_ErrorFrame ==
    /\ [][/\ error' # error =>
                \/ lastOp'.op = "recError"
                \/ /\ lastOp'.op = "start"
                   /\ fx' # <<>>
                   /\ ~listening
                   /\ recognitionRef
                   /\ error' = "null"
          /\ lastOp'.op \in {"stopSTT", "result", "recEnd", "render",
                             "unmount", "cleanup"} => error' = error
          /\ (/\ lastOp'.op = "start"
              /\ (fx' = <<>> \/ listening \/ ~recognitionRef)) =>
                error' = error]_vars
    /\ [](listening => error = "null")

\* an error that is still shown after the session ended and stop() was called
C40_Witness ==
    /\ lastOp.op = "stopSTT"
    /\ error = "no-speech"
    /\ session = "idle"
    /\ ~listening

\* C33 (as claimed): from a replay() call until its settle timer fires, with
\* no other call in between, the controller is Idle with progress 0 and the
\* engine holds no utterance of it.
C33_ReplayWaits ==
    (rep.i # 0 /\ rep.req = 0) =>
        /\ state[rep.i] = "idle"
        /\ progress[rep.i] = 0
        /\ \A u \in Range(queue) : reqs[u].inst # rep.i

\* C35 (as claimed): the last end or error callback of a cancelled
\* utterance that is no longer its controller's current utterance changes
\* neither the state nor the progress of that controller.
C35_LateCallbacksIgnored ==
    [][(/\ lastOp'.op \in {"lateEnd", "lateError"}
        /\ \A u \in late \ late' : uttRef[reqs[u].inst] # u) =>
          /\ state' = state
          /\ progress' = progress]_vars

\* C36 (as claimed): when the step that follows a stop() is a timer or the
\* catalog notification, it hands no utterance of the stopped controller to
\* the engine and leaves the controller Idle with progress 0.
C36_StopCancelsPending ==
    [][(/\ lastOp.op = "stop"
        /\ lastOp'.op \in {"voiceschanged", "voiceTimeout", "replayTimeout"}) =>
          /\ state'[lastOp.i] = "idle"
          /\ progress'[lastOp.i] = 0
          /\ \A r \in 1..Len(reqs') :
                reqs'[r].inst = lastOp.i =>
                    reqs'[r].spoken = spokenIn(reqs, r)]_vars

\* C37 (as claimed): a controller in Playing or Paused owns the utterance
\* the engine is speaking, and in Paused the engine is paused.
C37_ControllerEngineAgree ==
    \A i \in Insts :
        Active(i) =>
            /\ queue # <<>>
            /\ reqs[Head(queue)].inst = i
            /\ state[i] = "paused" => paused

\* C38 (as claimed): no utterance with an empty text is handed to the
\* engine.
C38_NoEmptyUtterance ==
    \A r \in 1..Len(reqs) : reqs[r].spoken > 0 => reqs[r].text # <<>>

\* C31 (as claimed): a slide change cancels the engine and leaves the chat
\* panel's controller Idle (at once where the change leaves nothing to
\* render), and every utterance a readAloud timer starts afterwards reads
\* content of the slide the panel shows.
C31_SlideChangeStops ==
    [][/\ lastOp'.op = "slideChange" =>
             /\ fx' # <<>> /\ Head(fx') = "cancel"
             /\ queue' = <<>>
             /\ (ttsText' = text'[1] /\ 1 \notin effectDue') =>
                    state'[1] = "idle"
       /\ (lastOp'.op = "readAloudTimeout" /\ Len(reqs') > Len(reqs)) =>
             Head(readTimers).slide = slide']_vars

\* the backend answered with a usable text
goodChat(o) ==
    /\ o.net = "ok" /\ o.ok
    /\ o.body.json = "object"
    /\ o.body.reply.has /\ o.body.reply.val # <<>>

\* the backend answered with a usable summary
goodSummary(o) ==
    /\ o.net = "ok" /\ o.ok
    /\ o.body.json = "object"
    /\ o.body.description.has /\ o.body.description.val # <<>>
    /\ o.body.keyPoints = "array"

\* C32: every collaborator call resolves, whatever the outcome of the HTTP
\* request: with the text of the backend when the response is OK, parses
\* and holds the fields, and otherwise with the fallback built from the
\* static data of the slide it was made for.
C32_CollaboratorNeverFails ==
    ai.fn # "none" =>
        /\ ai.tag = "resolved"
        /\ ai.fn = "chat" =>
              ai.value = IF goodChat(ai.http)
                         THEN [text |-> ai.http.body.reply.val,
                               keyPoints |-> <<>>]
                         ELSE [text |-> <<"a", ".", " ">> \o aiInsight(ai.slide),
                               keyPoints |-> <<>>]
        /\ ai.fn = "summary" =>
              ai.value = IF goodSummary(ai.http)
                         THEN [text |-> ai.http.body.description.val,
                               keyPoints |-> BackendKeyPoints]
                         ELSE IF ai.slide = 1
                              THEN [text |-> <<"a", ".">>,
                                    keyPoints |-> << wordsText(2) >>]
                              ELSE [text |-> <<"a", " ", "a", ".">>,
                                    keyPoints |-> << wordsText(7),
                                                     wordsText(1) >>]

\* an OK response whose body does not parse: the call for the second slide
\* resolved with the fallback, which is about to be read out
C32_Witness ==
    /\ ai.fn = "chat"
    /\ ai.slide = 2
    /\ ai.http.ok
    /\ ai.http.body.json = "unparsable"
    /\ ai.tag = "resolved"
    /\ readTimers # <<>>
    /\ Head(readTimers).text = <<"a", ".", " ">> \o aiInsight(2)

\* C34: in the synchronous-voice variant a speak() with a non-empty text
\* hands its utterance to the engine and sets Playing in the call, with or
\* without a catalog and without a timer or listener; a catalog notification
\* changes nothing but the voice of the current utterance of the controller
\* whose handler is set, and nothing at all when stop() cleared it.
C34_SyncSpeakNeverWaits ==
    [][/\ (lastOp'.op = "speak" /\ lastOp'.t # <<>>) =>
             /\ Len(reqs') = Len(reqs) + 1
             /\ reqs'[Len(reqs')].spoken = 1
             /\ reqs'[Len(reqs')].text = lastOp'.t
             /\ queue' = <<Len(reqs')>>
             /\ state'[lastOp'.i] = "playing"
             /\ uttRef'[lastOp'.i] = Len(reqs')
             /\ timers' = timers /\ listeners' = listeners
       /\ lastOp'.op = "voiceschanged" =>
             /\ state' = state /\ progress' = progress
             /\ queue' = queue /\ uttRef' = uttRef
             /\ Len(reqs') = Len(reqs)
             /\ \A r \in 1..Len(reqs) :
                   reqs'[r] # reqs[r] =>
                       /\ onvoiceschanged.inst # 0
                       /\ uttRef[onvoiceschanged.inst] = r
                       /\ reqs'[r] = [reqs[r] EXCEPT !.voice = reqs'[r].voice]
                       /\ reqs'[r].voice # Null]_vars

\* the catalog loaded while the utterance of a speak() without a catalog
\* was playing: it got its voice, the controller is still Playing
C34_Witness ==
    /\ lastOp.op = "voiceschanged"
    /\ onvoiceschanged = [inst |-> 1, req |-> 1]
    /\ uttRef[1] = 1
    /\ reqs[1].voice = VGoogleUS
    /\ state[1] = "playing"
    /\ queue = <<1>>

====
